---- MODULE Spec2Model ----
(***************************************************************************)
(* BMR estimation engines of the repository:                               *)
(*   - python_framework.py: BMRCalculator (static weighting ensemble) and   *)
(*     FrameworkService.calculate_bmr, its dispatcher;                      *)
(*   - python_framework_advanced.py: AdvancedBMRCalculator (confidence      *)
(*     weighted ensemble) and AdvancedTransformationFramework.calculate_bmr;*)
(*   - scalable-transformation-framework: ExampleBMRStrategy.               *)
(*                                                                         *)
(* Numbers.  Python floats are modelled as exact rationals [n, d] in lowest *)
(* terms with d > 0.  round(x, k) is modelled by what it does to the value: *)
(* the nearest multiple of 10^-k.  Three cases of a value that lies exactly *)
(* between two multiples are told apart:                                    *)
(*   - quarter values such as 1726.25 (Mifflin-St Jeor on whole inputs) are *)
(*     exact doubles and go to the even digit: RoundHalfEven;               *)
(*   - the confidence scorers round a product of a few constants; their two *)
(*     decimal ties, 0.93*1.05 = 0.9765 and 0.9*0.85*0.9 = 0.6885, are      *)
(*     doubles just above the tie and go up: RoundHalfUp;                   *)
(*   - any other decimal tie (719.85, 1964.45, ...) is a double a little    *)
(*     above or a little below the tie, and round() follows the double.     *)
(*     The rational value does not carry that error, so the direction is    *)
(*     the variable tie_up, chosen in Init and never changed: Round.        *)
(***************************************************************************)
EXTENDS Integers, Sequences, FiniteSets, TLC

\* ------------------------------------------------------------- bounds
\* Number of calls made on the engines in one behaviour.
MaxCalls == 1

\* Number of calls made on one profile object held by the caller.
MaxCalculatorCalls == 2

\* Number of calls the advanced framework serves in a row.
MaxAdvancedCalls == 3

\* Number of threads calling into the service at the same time.
NumThreads == 2

\* Number of commands and requests the transport handlers serve in a row.
MaxTransportCalls == 2

\* Number of TransformationFramework.calculate calls in a row.
MaxFrameworkCalls == 3

\* Number of calculate calls in a row when strategies are named.
MaxStrategyCalls == 2

\* Number of calls on an experiment manager.
MaxExperimentCalls == 4

\* Number of commands one FrameworkService is sent.
MaxServiceCalls == 3

\* Number of load_plugin and unload_plugin calls on a plugin manager.
MaxPluginCalls == 4

\* Number of publish calls on a bus with subscribers.
MaxBusPublishes == 2

\* Number of publish calls on a bus whose history fills up.
MaxPublishes == 1003

\* Number of CacheManager.get calls, and seconds that pass, on a cache used
\* on its own.
MaxGets == 2

MaxTicks == 2

\* ---------------------------------------------------------------- state
VARIABLES
    profile_data,            \* the profile of the request being served
    profile,                 \* the UserProfile object FrameworkService handed to
                             \* BMRCalculator, as the last call left it
    request_method,          \* the method name of the last request
    engine,                  \* the entry point that served the last request
    result,                  \* what the last call returned, or the exception it raised
    calculations_performed,  \* FrameworkService.calculations_performed
    event_history,           \* AdvancedTransformationFramework.event_bus._event_history
    counters,                \* AdvancedTransformationFramework.metrics.counters
    bmr_calculations,        \* AdvancedBMRCalculator.metrics.counters, by method tag
    calls,                   \* number of calls made so far
    tie_up,                  \* the direction round() takes at a decimal tie of
                             \* an inexact double
    threads,                 \* the threads calling into the service: where each
                             \* stands, what it read and what it was returned
    command,                 \* the last command or request a transport handler received
    response,                \* what the transport handler answered
    stats,                   \* TransformationFramework.stats
    cache,                   \* TransformationFramework.cache_manager: its entries
    validators,              \* TransformationFramework.validation_pipeline.validators
    validator_calls,         \* the validators the last calculate invoked, in order
    strategies,              \* StrategyRegistry._strategies['bmr']: the names of
                             \* the registered strategies, in registration order
    default_strategy,        \* StrategyRegistry._default_strategies['bmr'], or "none"
    cache_enabled,           \* the configuration value framework.cache_enabled
    request,                 \* use_cache and strategy_name of the last calculate
    strategy_calls,          \* number of strategy.calculate invocations
    timestamps,              \* CacheManager: per key, the seconds since
                             \* _timestamps[key] was written
    last_set,                \* per key, the value and ttl of the last set
    hit_counts,              \* CacheManager._hit_counts
    miss_counts,             \* CacheManager._miss_counts
    gets,                    \* number of CacheManager.get calls made
    got,                     \* what the last CacheManager.get returned
    ticks,                   \* seconds passed since the cache was created
    subscribers,             \* EventBus._subscribers: per event type, the
                             \* (priority, callback) list
    invoked,                 \* the callbacks the last publish invoked, in order
    returned,                \* the list the last publish returned
    published,               \* number of publish calls made on the bus
    plugins,                 \* PluginManager.plugins: the names of the loaded plugins
    plugin_calls,            \* number of load_plugin and unload_plugin calls made
    plugin_returned,         \* the last load_plugin or unload_plugin call and
                             \* what it returned
    service_plugins,         \* FrameworkService.plugin_manager.plugins: the keys
    health,                  \* what the last health_check command was answered
    answered,                \* number of calculate_bmr commands answered with
                             \* success true
    experiments,             \* ExperimentManager.experiments
    participant_assignments, \* ExperimentManager.participant_assignments
    experiment_results,      \* ExperimentManager.results
    experiment_calls,        \* number of ExperimentManager calls made
    experiment_returned      \* the last ExperimentManager call and its outcome

service_vars == <<profile_data, profile, request_method, engine, result,
                  calculations_performed, event_history, counters, bmr_calculations,
                  calls, tie_up>>

concurrent_vars == <<threads>>

transport_vars == <<command, response>>

framework_vars == <<stats, cache, validators, validator_calls, strategies,
                    default_strategy, cache_enabled, request,
                    strategy_calls>>

cache_vars == <<timestamps, last_set, hit_counts, miss_counts, gets, got, ticks>>

bus_vars == <<subscribers, invoked, returned, published>>

plugin_vars == <<plugins, plugin_calls, plugin_returned>>

session_vars == <<service_plugins, health, answered>>

experiment_vars ==
    <<experiments, participant_assignments, experiment_results, experiment_calls,
      experiment_returned>>

component_vars == <<cache_vars, bus_vars, plugin_vars, session_vars, experiment_vars>>

vars == <<service_vars, concurrent_vars, transport_vars, framework_vars, component_vars>>

\* ------------------------------------------------------------ rationals
Abs(x) == IF x < 0 THEN -x ELSE x

RECURSIVE GCD(_, _)
GCD(a, b) == IF b = 0 THEN a ELSE GCD(b, a % b)

\* n / d in lowest terms, d > 0.
Rat(n, d) == LET g == GCD(Abs(n), d) IN [n |-> n \div g, d |-> d \div g]

Int2Rat(i) == [n |-> i, d |-> 1]

RAdd(a, b) ==
    LET g == GCD(a.d, b.d)
    IN  Rat(a.n * (b.d \div g) + b.n * (a.d \div g), (a.d \div g) * b.d)

RNeg(a) == [n |-> -a.n, d |-> a.d]

RSub(a, b) == RAdd(a, RNeg(b))

RMul(a, b) ==
    LET g1 == GCD(Abs(a.n), b.d)
        g2 == GCD(Abs(b.n), a.d)
    IN  Rat((a.n \div g1) * (b.n \div g2), (a.d \div g2) * (b.d \div g1))

\* a / b for b > 0.
RDiv(a, b) == RMul(a, [n |-> b.d, d |-> b.n])

RLt(a, b) == a.n * b.d < b.n * a.d

RLe(a, b) == a.n * b.d <= b.n * a.d

RMin(a, b) == IF RLt(b, a) THEN b ELSE a

RMax(a, b) == IF RLt(a, b) THEN b ELSE a

RAbs(a) == [n |-> Abs(a.n), d |-> a.d]

\* Python round(x, k) with scale = 10^k, for a value whose ties are exact
\* doubles: nearest multiple of 1/scale, ties to the even multiple.
RoundHalfEven(x, scale) ==
    LET y  == RMul(x, Int2Rat(scale))
        f  == y.n \div y.d
        r2 == 2 * (y.n - f * y.d)
        q  == IF r2 < y.d THEN f
              ELSE IF r2 > y.d THEN f + 1
              ELSE IF f % 2 = 0 THEN f ELSE f + 1
    IN  Rat(q, scale)

\* Python round(x, k) for the confidence products, whose decimal ties are
\* doubles just above the tie: nearest multiple of 1/scale, ties upwards.
RoundHalfUp(x, scale) ==
    LET y  == RMul(x, Int2Rat(scale))
        f  == y.n \div y.d
        r2 == 2 * (y.n - f * y.d)
    IN  Rat(IF r2 < y.d THEN f ELSE f + 1, scale)

\* Python round(x, k) of an inexact double: nearest multiple of 1/scale; at a
\* decimal tie the double lies on either side, tie_up says which.
Round(x, scale) ==
    LET y  == RMul(x, Int2Rat(scale))
        f  == y.n \div y.d
        r2 == 2 * (y.n - f * y.d)
        q  == IF r2 < y.d THEN f
              ELSE IF r2 > y.d THEN f + 1
              ELSE IF tie_up THEN f + 1 ELSE f
    IN  Rat(q, scale)

\* -------------------------------------------------------------- profiles
\* Optional[float]: << >> is None, <<x>> is the value x.
None == << >>

Some(x) == <<x>>

\* Python truthiness of an Optional[float]: None and 0 are falsy.
Truthy(opt) == Len(opt) = 1 /\ opt[1].n # 0

UserProfile(w, h, a, g, bf) ==
    [weight_kg |-> w, height_cm |-> h, age |-> a, gender |-> g,
     body_fat_percentage |-> bf]

\* An exception leaving a call.
Raise(e) == [ok |-> FALSE, error |-> e]

\* weight_kg / (height_cm / 100) ** 2, for height_cm # 0.
Bmi(w, h) == Rat(w * 10000, h * h)

\* ------------------------------------------- python_framework.py: BMRCalculator
\* The base_confidence table with the ensemble's entry below the formulas'.
base_confidence_weak_ensemble(method) ==
    CASE method = "mifflin_st_jeor"   -> Rat(95, 100)
      [] method = "harris_benedict"   -> Rat(90, 100)
      [] method = "katch_mcardle"     -> Rat(93, 100)
      [] method = "adaptive_ensemble" -> Rat(80, 100)
      [] OTHER                        -> Rat(85, 100)

\* base_confidence table of _calculate_confidence, .get(method, 0.85).
base_confidence(method) ==
    CASE method = "mifflin_st_jeor"   -> Rat(95, 100)
      [] method = "harris_benedict"   -> Rat(90, 100)
      [] method = "katch_mcardle"     -> Rat(93, 100)
      [] method = "adaptive_ensemble" -> Rat(97, 100)
      [] OTHER                        -> Rat(85, 100)

\* BMRCalculator._calculate_confidence, for height_cm # 0 (height_cm = 0 makes
\* the bmi division raise ZeroDivisionError; the callers test for it).
BMRCalculator_calculate_confidence(p, method) ==
    LET c0  == base_confidence(method)
        c1  == IF p.age < 18 \/ p.age > 80 THEN RMul(c0, Rat(90, 100)) ELSE c0
        bmi == Bmi(p.weight_kg, p.height_cm)
        c2  == IF RLt(bmi, Rat(185, 10)) \/ RLt(Int2Rat(35), bmi)
               THEN RMul(c1, Rat(92, 100)) ELSE c1
        c3  == IF Truthy(p.body_fat_percentage) /\ method = "katch_mcardle"
               THEN RMul(c2, Rat(105, 100)) ELSE c2
    IN  RoundHalfUp(RMin(Rat(99, 100), c3), 1000)

\* _estimate_body_fat returning the raw value, the clamp to [5, 50] forgotten.
BMRCalculator_estimate_body_fat_unclamped(p) ==
    LET bmi == Bmi(p.weight_kg, p.height_cm)
    IN  RSub(RAdd(RMul(Rat(120, 100), bmi), RMul(Rat(23, 100), Int2Rat(p.age))),
             IF p.gender = "male" THEN Rat(162, 10) ELSE Rat(54, 10))

\* BMRCalculator._estimate_body_fat, for height_cm # 0.
BMRCalculator_estimate_body_fat(p) ==
    LET bmi == Bmi(p.weight_kg, p.height_cm)
        bf  == IF p.gender = "male"
               THEN RSub(RAdd(RMul(Rat(120, 100), bmi), RMul(Rat(23, 100), Int2Rat(p.age))),
                         Rat(162, 10))
               ELSE RSub(RAdd(RMul(Rat(120, 100), bmi), RMul(Rat(23, 100), Int2Rat(p.age))),
                         Rat(54, 10))
    IN  RMax(Int2Rat(5), RMin(Int2Rat(50), bf))

\* _calculate_ensemble_weights with the age shift added to harris but not
\* taken from mifflin.
BMRCalculator_calculate_ensemble_weights_unbalanced(p) ==
    LET bmi == Bmi(p.weight_kg, p.height_cm)
        w0  == IF RLe(Rat(185, 10), bmi) /\ RLe(bmi, Int2Rat(25))
               THEN [mifflin |-> Rat(7, 10), harris |-> Rat(3, 10)]
               ELSE IF RLt(Int2Rat(30), bmi)
               THEN [mifflin |-> Rat(55, 100), harris |-> Rat(45, 100)]
               ELSE [mifflin |-> Rat(6, 10), harris |-> Rat(4, 10)]
    IN  IF p.age > 60
        THEN [mifflin |-> w0.mifflin, harris |-> RAdd(w0.harris, Rat(5, 100))]
        ELSE w0

\* _calculate_ensemble_weights with the age > 60 shift forgotten.
BMRCalculator_calculate_ensemble_weights_no_age_shift(p) ==
    LET bmi == Bmi(p.weight_kg, p.height_cm)
    IN  IF RLe(Rat(185, 10), bmi) /\ RLe(bmi, Int2Rat(25))
        THEN [mifflin |-> Rat(7, 10), harris |-> Rat(3, 10)]
        ELSE IF RLt(Int2Rat(30), bmi)
        THEN [mifflin |-> Rat(55, 100), harris |-> Rat(45, 100)]
        ELSE [mifflin |-> Rat(6, 10), harris |-> Rat(4, 10)]

\* BMRCalculator._calculate_ensemble_weights, for height_cm # 0.
BMRCalculator_calculate_ensemble_weights(p) ==
    LET bmi == Bmi(p.weight_kg, p.height_cm)
        w0  == IF RLe(Rat(185, 10), bmi) /\ RLe(bmi, Int2Rat(25))
               THEN [mifflin |-> Rat(7, 10), harris |-> Rat(3, 10)]
               ELSE IF RLt(Int2Rat(30), bmi)
               THEN [mifflin |-> Rat(55, 100), harris |-> Rat(45, 100)]
               ELSE [mifflin |-> Rat(6, 10), harris |-> Rat(4, 10)]
        w1  == IF p.age > 60
               THEN [mifflin |-> RSub(w0.mifflin, Rat(5, 100)),
                     harris  |-> RAdd(w0.harris, Rat(5, 100))]
               ELSE w0
    IN  [mifflin |-> RoundHalfEven(w1.mifflin, 100),
         harris  |-> RoundHalfEven(w1.harris, 100)]

\* mifflin_st_jeor with the two gender constants exchanged.
mifflin_st_jeor_swapped(p) ==
    LET base == RSub(RAdd(Int2Rat(10 * p.weight_kg), RMul(Rat(625, 100), Int2Rat(p.height_cm))),
                     Int2Rat(5 * p.age))
        gender_constant == IF p.gender = "male" THEN -161 ELSE 5
    IN  IF p.height_cm = 0 THEN Raise("ZeroDivisionError")
        ELSE [ok |-> TRUE,
              bmr |-> RoundHalfEven(RAdd(base, Int2Rat(gender_constant)), 10),
              method |-> "mifflin_st_jeor",
              confidence |-> BMRCalculator_calculate_confidence(p, "mifflin_st_jeor"),
              components |-> [base |-> RoundHalfEven(base, 10),
                              gender_adjustment |-> Int2Rat(gender_constant)]]

\* BMRCalculator.mifflin_st_jeor
mifflin_st_jeor(p) ==
    LET base == RSub(RAdd(Int2Rat(10 * p.weight_kg), RMul(Rat(625, 100), Int2Rat(p.height_cm))),
                     Int2Rat(5 * p.age))
        gender_constant == IF p.gender = "male" THEN 5 ELSE -161
        bmr  == RAdd(base, Int2Rat(gender_constant))
    IN  IF p.height_cm = 0 THEN Raise("ZeroDivisionError")
        ELSE [ok |-> TRUE,
              bmr |-> RoundHalfEven(bmr, 10),
              method |-> "mifflin_st_jeor",
              confidence |-> BMRCalculator_calculate_confidence(p, "mifflin_st_jeor"),
              components |->
                [base |-> RoundHalfEven(base, 10),
                 gender_adjustment |-> Int2Rat(gender_constant),
                 weight_component |-> RoundHalfEven(Int2Rat(10 * p.weight_kg), 10),
                 height_component |-> RoundHalfEven(RMul(Rat(625, 100), Int2Rat(p.height_cm)), 10),
                 age_component |-> RoundHalfEven(Int2Rat(-5 * p.age), 10)]]

\* harris_benedict applying the female constants to every profile.
harris_benedict_one_branch(p) ==
    LET bmr == RSub(RAdd(RAdd(Rat(447593, 1000), RMul(Rat(9247, 1000), Int2Rat(p.weight_kg))),
                         RMul(Rat(3098, 1000), Int2Rat(p.height_cm))),
                    RMul(Rat(4330, 1000), Int2Rat(p.age)))
    IN  IF p.height_cm = 0 THEN Raise("ZeroDivisionError")
        ELSE [ok |-> TRUE,
              bmr |-> Round(bmr, 10),
              method |-> "harris_benedict",
              confidence |-> BMRCalculator_calculate_confidence(p, "harris_benedict"),
              components |-> [base_constant |-> Rat(447593, 1000)]]

\* BMRCalculator.harris_benedict
harris_benedict(p) ==
    LET male == p.gender = "male"
        base_constant == IF male THEN Rat(88362, 1000) ELSE Rat(447593, 1000)
        wc   == RMul(IF male THEN Rat(13397, 1000) ELSE Rat(9247, 1000), Int2Rat(p.weight_kg))
        hc   == RMul(IF male THEN Rat(4799, 1000) ELSE Rat(3098, 1000), Int2Rat(p.height_cm))
        ac   == RMul(IF male THEN Rat(5677, 1000) ELSE Rat(4330, 1000), Int2Rat(p.age))
        bmr  == RSub(RAdd(RAdd(base_constant, wc), hc), ac)
    IN  IF p.height_cm = 0 THEN Raise("ZeroDivisionError")
        ELSE [ok |-> TRUE,
              bmr |-> Round(bmr, 10),
              method |-> "harris_benedict",
              confidence |-> BMRCalculator_calculate_confidence(p, "harris_benedict"),
              components |->
                [base_constant |-> base_constant,
                 weight_component |-> Round(wc, 10),
                 height_component |-> Round(hc, 10),
                 age_component |-> Round(RNeg(ac), 10)]]

\* The profile object after BMRCalculator.katch_mcardle: a falsy
\* body_fat_percentage (None or 0) is overwritten with the estimate.
katch_mcardle_profile(p) ==
    IF ~Truthy(p.body_fat_percentage) /\ p.height_cm # 0
    THEN [p EXCEPT !.body_fat_percentage = Some(BMRCalculator_estimate_body_fat(p))]
    ELSE p

\* BMRCalculator.katch_mcardle
katch_mcardle(p) ==
    IF p.height_cm = 0 THEN Raise("ZeroDivisionError")
    ELSE
    LET q    == katch_mcardle_profile(p)
        bf   == q.body_fat_percentage[1]
        lean_body_mass == RMul(Int2Rat(p.weight_kg),
                               RSub(Int2Rat(1), RDiv(bf, Int2Rat(100))))
        bmr  == RAdd(Int2Rat(370), RMul(Rat(216, 10), lean_body_mass))
    IN  [ok |-> TRUE,
         bmr |-> Round(bmr, 10),
         method |-> "katch_mcardle",
         confidence |-> BMRCalculator_calculate_confidence(q, "katch_mcardle"),
         components |->
           [base_constant |-> Int2Rat(370),
            lean_body_mass |-> Round(lean_body_mass, 10),
            lbm_component |-> Round(RMul(Rat(216, 10), lean_body_mass), 10),
            body_fat_used |-> bf]]

\* BMRCalculator.adaptive_ensemble
adaptive_ensemble_blend(p, mifflin, harris, weights, katch) ==
    LET bmr2    == RAdd(RMul(mifflin.bmr, weights.mifflin), RMul(harris.bmr, weights.harris))
        blend   == Truthy(p.body_fat_percentage)
        bmr     == IF blend
                   THEN RAdd(RMul(bmr2, Rat(7, 10)), RMul(katch.bmr, Rat(3, 10)))
                   ELSE bmr2
        weights_used ==
            IF blend
            THEN [mifflin |-> RMul(weights.mifflin, Rat(7, 10)),
                  harris |-> RMul(weights.harris, Rat(7, 10)),
                  katch_mcardle |-> Rat(3, 10)]
            ELSE weights
        confidence == RMin(Rat(99, 100),
                           RAdd(BMRCalculator_calculate_confidence(p, "adaptive_ensemble"),
                                Rat(5, 100)))
    IN  [ok |-> TRUE,
         bmr |-> Round(bmr, 10),
         method |-> "adaptive_ensemble",
         confidence |-> confidence,
         components |->
           [mifflin_bmr |-> mifflin.bmr,
            harris_bmr |-> harris.bmr,
            weights_used |-> weights_used,
            ensemble_logic |-> "intelligent_weighting_v2"]]

\* The ensemble runs the formulas, then blends their results.
adaptive_ensemble(p) ==
    IF p.height_cm = 0 THEN Raise("ZeroDivisionError")
    ELSE adaptive_ensemble_blend(p, mifflin_st_jeor(p), harris_benedict(p),
                                 BMRCalculator_calculate_ensemble_weights(p),
                                 katch_mcardle(p))

\* ------------------------- python_framework_advanced.py: AdvancedBMRCalculator
\* AdvancedBMRCalculator._calculate_confidence, for height_cm # 0.  The elif
\* branch (bmi < 16 or bmi > 35) is only reached when bmi is in [18.5, 30].
AdvancedBMRCalculator_calculate_confidence(weight_kg, height_cm, age) ==
    LET c0  == Rat(9, 10)
        c1  == IF age < 18 \/ age > 65 THEN RMul(c0, Rat(85, 100)) ELSE c0
        bmi == Bmi(weight_kg, height_cm)
        c2  == IF RLt(bmi, Rat(185, 10)) \/ RLt(Int2Rat(30), bmi)
               THEN RMul(c1, Rat(9, 10))
               ELSE IF RLt(bmi, Int2Rat(16)) \/ RLt(Int2Rat(35), bmi)
               THEN RMul(c1, Rat(8, 10))
               ELSE c1
    IN  RoundHalfUp(c2, 1000)

\* AdvancedBMRCalculator.calculate_mifflin_st_jeor (the returned record; the
\* metadata field holds wall-clock timing only and is left out).
calculate_mifflin_st_jeor(weight_kg, height_cm, age, gender) ==
    LET base == RSub(RAdd(Int2Rat(10 * weight_kg), RMul(Rat(625, 100), Int2Rat(height_cm))),
                     Int2Rat(5 * age))
        gender_constant == IF gender = "male" THEN 5 ELSE -161
        bmr  == RAdd(base, Int2Rat(gender_constant))
    IN  IF height_cm = 0 THEN Raise("ZeroDivisionError")
        ELSE [ok |-> TRUE,
              bmr |-> RoundHalfEven(bmr, 10),
              method |-> "mifflin_st_jeor",
              confidence |-> AdvancedBMRCalculator_calculate_confidence(weight_kg, height_cm, age),
              components |-> [base |-> base, gender_adjustment |-> Int2Rat(gender_constant)]]

\* AdvancedBMRCalculator.calculate_harris_benedict (no components key).
calculate_harris_benedict(weight_kg, height_cm, age, gender) ==
    LET bmr == IF gender = "male"
               THEN RSub(RAdd(RAdd(Rat(88362, 1000), RMul(Rat(13397, 1000), Int2Rat(weight_kg))),
                              RMul(Rat(4799, 1000), Int2Rat(height_cm))),
                         RMul(Rat(5677, 1000), Int2Rat(age)))
               ELSE RSub(RAdd(RAdd(Rat(447593, 1000), RMul(Rat(9247, 1000), Int2Rat(weight_kg))),
                              RMul(Rat(3098, 1000), Int2Rat(height_cm))),
                         RMul(Rat(4330, 1000), Int2Rat(age)))
    IN  IF height_cm = 0 THEN Raise("ZeroDivisionError")
        ELSE [ok |-> TRUE,
              bmr |-> Round(bmr, 10),
              method |-> "harris_benedict",
              confidence |-> RMul(AdvancedBMRCalculator_calculate_confidence(weight_kg, height_cm, age),
                                  Rat(95, 100))]

\* The confidence-weighted blend always taking the equal-weight fallback.
calculate_adaptive_ensemble_blend_equal_weights(mifflin, harris) ==
    [ok |-> TRUE,
     bmr |-> Round(RDiv(RAdd(mifflin.bmr, harris.bmr), Int2Rat(2)), 10),
     method |-> "adaptive_ensemble",
     confidence |-> RMin(Rat(98, 100),
                         RAdd(RDiv(RAdd(mifflin.confidence, harris.confidence), Int2Rat(2)),
                              Rat(5, 100))),
     components |->
       [mifflin_result |-> mifflin,
        harris_result |-> harris,
        ensemble_weights |-> [mifflin |-> Rat(1, 2), harris |-> Rat(1, 2)]]]

\* AdvancedBMRCalculator.calculate_adaptive_ensemble
calculate_adaptive_ensemble_blend(mifflin, harris) ==
    LET mifflin_weight == mifflin.confidence
        harris_weight  == harris.confidence
        total_weight   == RAdd(mifflin_weight, harris_weight)
        positive       == RLt(Int2Rat(0), total_weight)
        ensemble_bmr ==
            IF positive
            THEN RAdd(RMul(mifflin.bmr, RDiv(mifflin_weight, total_weight)),
                      RMul(harris.bmr, RDiv(harris_weight, total_weight)))
            ELSE RDiv(RAdd(mifflin.bmr, harris.bmr), Int2Rat(2))
        confidence == RMin(Rat(98, 100),
                           RAdd(RDiv(RAdd(mifflin.confidence, harris.confidence), Int2Rat(2)),
                                Rat(5, 100)))
    IN  [ok |-> TRUE,
         bmr |-> Round(ensemble_bmr, 10),
         method |-> "adaptive_ensemble",
         confidence |-> confidence,
         components |->
           [mifflin_result |-> mifflin,
            harris_result |-> harris,
            ensemble_weights |->
              [mifflin |-> IF positive THEN RDiv(mifflin_weight, total_weight) ELSE Rat(1, 2),
               harris  |-> IF positive THEN RDiv(harris_weight, total_weight) ELSE Rat(1, 2)]]]

\* The ensemble runs both formulas, then blends their results.
calculate_adaptive_ensemble(weight_kg, height_cm, age, gender) ==
    IF height_cm = 0 THEN Raise("ZeroDivisionError")
    ELSE calculate_adaptive_ensemble_blend(
             calculate_mifflin_st_jeor(weight_kg, height_cm, age, gender),
             calculate_harris_benedict(weight_kg, height_cm, age, gender))

\* ------------------- scalable-transformation-framework: ExampleBMRStrategy
\* ExampleBMRStrategy.calculate (no confidence key, no division).
ExampleBMRStrategy_calculate(p) ==
    LET base == RSub(RAdd(Int2Rat(10 * p.weight_kg), RMul(Rat(625, 100), Int2Rat(p.height_cm))),
                     Int2Rat(5 * p.age))
        gender_constant == IF p.gender = "male" THEN 5 ELSE -161
        bmr  == RAdd(base, Int2Rat(gender_constant))
    IN  [ok |-> TRUE,
         bmr |-> RoundHalfEven(bmr, 10),
         method |-> "mifflin_st_jeor",
         components |-> [base |-> base, gender_adjustment |-> Int2Rat(gender_constant)]]

\* ExampleBMRStrategy.get_confidence, for height_cm # 0.
ExampleBMRStrategy_get_confidence(p) ==
    LET c0  == Rat(9, 10)
        c1  == IF p.age < 18 \/ p.age > 65 THEN RMul(c0, Rat(85, 100)) ELSE c0
        bmi == Bmi(p.weight_kg, p.height_cm)
        c2  == IF RLt(bmi, Rat(185, 10)) \/ RLt(Int2Rat(30), bmi)
               THEN RMul(c1, Rat(9, 10)) ELSE c1
    IN  RoundHalfUp(c2, 1000)

\* ------------------------------------------------------------ request inputs
\* Values a request may carry.  Weights, heights and ages include values that
\* break the profile invariant (<= 0); body fat includes None, the boundary 0
\* and a value above 100.
WeightValues == {0, 45, 75, 85, 130}

HeightValues == {0, 160, 180}

AgeValues == {-5, 10, 30, 70, 90}

GenderValues == {"male", "female"}

BodyFatValues == {None, Some(Int2Rat(0)), Some(Int2Rat(15)), Some(Int2Rat(150))}

KnownMethods == {"mifflin_st_jeor", "harris_benedict", "katch_mcardle", "adaptive_ensemble"}

MethodValues == KnownMethods \cup {"nonexistent_method"}

ProfileValues ==
    { UserProfile(w, h, a, g, bf) :
        w \in WeightValues, h \in HeightValues, a \in AgeValues,
        g \in GenderValues, bf \in BodyFatValues }

\* The profile invariant of the data model: weight_kg > 0, height_cm > 0,
\* age > 0, and body_fat_percentage, if present, in [0, 100].
ValidProfile(p) ==
    /\ p.weight_kg > 0
    /\ p.height_cm > 0
    /\ p.age > 0
    /\ \/ p.body_fat_percentage = None
       \/ /\ RLe(Int2Rat(0), p.body_fat_percentage[1])
          /\ RLe(p.body_fat_percentage[1], Int2Rat(100))

\* EventBus._max_history
max_history == 1000

AdvancedMethods == {"mifflin_st_jeor", "harris_benedict", "adaptive_ensemble"}

Threads == 1 .. NumThreads

\* A thread that has not called yet.
IdleThread ==
    [pc |-> "idle", op |-> "none", method |-> "none", local |-> 0,
     result |-> Raise("no call yet")]

\* The event types of a bus used on its own.
EventTypes == {"calculation_started", "plugin_loaded"}

\* Experiment names and user ids, each written as the list of its parts
\* between colons: <<"bmr", "v2">> is the name "bmr:v2".
ExperimentNames == {<<"bmr">>, <<"bmr", "v2">>, <<"macro">>, <<"unknown">>}

UserIds == {<<"alice">>, <<"v2", "alice">>}

\* FrameworkService._load_default_plugins: the plugins loaded at construction.
default_plugins ==
    {"bmr_calculator_pro", "advanced_analytics", "nutrition_tracker", "workout_planner"}

\* The keys and values of a cache used on its own.
CacheKeys == {"k1", "k2"}

CacheValues == {"v1", "v2"}

\* CacheManager(default_ttl), in the seconds of the model.
default_ttl == 2

\* The components of the framework, each as constructed.
InitComponents ==
    /\ timestamps = [k \in CacheKeys |-> 0]
    /\ last_set = [k \in CacheKeys |-> [value |-> "none", ttl |-> 0]]
    /\ hit_counts = [k \in CacheKeys |-> 0]
    /\ miss_counts = [k \in CacheKeys |-> 0]
    /\ gets = 0
    /\ got = [caller |-> "none", key |-> "none", value |-> "none", hit |-> FALSE]
    /\ ticks = 0
    /\ subscribers = [type \in EventTypes |-> << >>]
    /\ invoked = << >>
    /\ returned = << >>
    /\ published = 0
    /\ plugins = {}
    /\ plugin_calls = 0
    /\ plugin_returned = [call |-> "none", name |-> "none", value |-> FALSE]
    /\ service_plugins = default_plugins
    /\ health = [calculations_performed |-> 0, total_plugins |-> 0]
    /\ answered = 0
    /\ experiments = [name \in ExperimentNames |-> << >>]
    /\ participant_assignments = {}
    /\ experiment_results = << >>
    /\ experiment_calls = 0
    /\ experiment_returned =
           [call |-> "none", experiment |-> << >>, user |-> << >>, value |-> "none"]

\* calculate not called yet.
NoRequest == [use_cache |-> TRUE, strategy_name |-> "none"]

\* No command received, nothing answered.
NoCommand ==
    [handler |-> "none", shape |-> "none", action |-> "none", fields |-> "none",
     method |-> "none"]

NoResponse == [success |-> FALSE, error |-> "no response yet"]

Init ==
    /\ profile_data \in ProfileValues
    /\ profile = profile_data
    /\ request_method = "none"
    /\ engine = "none"
    /\ result = Raise("no call yet")
    /\ calculations_performed = 0
    /\ event_history = << >>
    /\ counters = [calculations_started |-> 0, calculations_completed |-> 0,
                   errors_total |-> 0]
    /\ bmr_calculations = [m \in AdvancedMethods |-> 0]
    /\ calls = 0
    /\ tie_up \in BOOLEAN
    /\ threads = [t \in Threads |-> IdleThread]
    /\ command = NoCommand
    /\ response = NoResponse
    /\ stats = [calculations_performed |-> 0, cache_hits |-> 0, errors_encountered |-> 0]
    /\ cache = {}
    /\ validators = << >>
    /\ validator_calls = << >>
    /\ strategies = << >>
    /\ default_strategy = "none"
    /\ cache_enabled = TRUE
    /\ request = NoRequest
    /\ strategy_calls = 0
    /\ InitComponents

\* ------------------------------ python_framework.py: FrameworkService
\* The routing of FrameworkService.calculate_bmr: a method name that is not a
\* key of calculator_methods is replaced by mifflin_st_jeor.
calculator_methods(m, p) ==
    LET routed == IF m \in KnownMethods THEN m ELSE "mifflin_st_jeor"
    IN  CASE routed = "mifflin_st_jeor"   -> mifflin_st_jeor(p)
          [] routed = "harris_benedict"   -> harris_benedict(p)
          [] routed = "katch_mcardle"     -> katch_mcardle(p)
          [] routed = "adaptive_ensemble" -> adaptive_ensemble(p)

\* FrameworkService.calculate_bmr that counts the calls that raise too.
FrameworkService_calculate_bmr_counts_attempts(m) ==
    /\ LET p == UserProfile(profile_data.weight_kg, profile_data.height_cm,
                            profile_data.age, profile_data.gender,
                            profile_data.body_fat_percentage)
       IN  /\ result' = calculator_methods(m, p)
           /\ profile' = IF m = "katch_mcardle" THEN katch_mcardle_profile(p) ELSE p
    /\ calculations_performed' = calculations_performed + 1
    /\ request_method' = m
    /\ engine' = "FrameworkService"
    /\ calls' = calls + 1
    /\ UNCHANGED <<profile_data, event_history, counters, bmr_calculations, tie_up>>

\* FrameworkService.calculate_bmr(profile_data, method)
FrameworkService_calculate_bmr(m) ==
    /\ LET p == UserProfile(profile_data.weight_kg, profile_data.height_cm,
                            profile_data.age, profile_data.gender,
                            profile_data.body_fat_percentage)
       IN  /\ result' = calculator_methods(m, p)
           /\ profile' = IF m = "katch_mcardle" THEN katch_mcardle_profile(p) ELSE p
           /\ calculations_performed' =
                  IF result'.ok THEN calculations_performed + 1 ELSE calculations_performed
    /\ request_method' = m
    /\ engine' = "FrameworkService"
    /\ calls' = calls + 1
    /\ UNCHANGED <<profile_data, event_history, counters, bmr_calculations, tie_up>>

\* -------- python_framework_advanced.py: AdvancedTransformationFramework
\* EventBus.publish that lets the history grow.
EventBus_publish_untrimmed(history, event_type, m) ==
    Append(history, [type |-> event_type, method |-> m])

\* EventBus.publish that notifies the handlers but keeps no history.
EventBus_publish_unrecorded(history, event_type, m) == history

\* EventBus.publish: the event is appended to the history, the oldest event is
\* dropped beyond _max_history.
EventBus_publish(history, event_type, m) ==
    LET h == Append(history, [type |-> event_type, method |-> m])
    IN  IF Len(h) > max_history THEN Tail(h) ELSE h

\* The if/elif chain of AdvancedTransformationFramework.calculate_bmr.
Advanced_dispatch(weight_kg, height_cm, age, gender, m) ==
    CASE m = "mifflin_st_jeor"   -> calculate_mifflin_st_jeor(weight_kg, height_cm, age, gender)
      [] m = "harris_benedict"   -> calculate_harris_benedict(weight_kg, height_cm, age, gender)
      [] m = "adaptive_ensemble" -> calculate_adaptive_ensemble(weight_kg, height_cm, age, gender)
      [] OTHER                   -> Raise("ValueError")

\* The bmr_calculations counter increments of a successful calculator call:
\* the ensemble runs both formulas, each counting itself, then counts itself.
AdvancedBMRCalculator_increment(c, m) ==
    IF m = "adaptive_ensemble"
    THEN [x \in AdvancedMethods |-> c[x] + 1]
    ELSE [c EXCEPT ![m] = c[m] + 1]

\* AdvancedTransformationFramework.calculate_bmr(weight_kg, height_cm, age,
\* gender, method), with the handlers the framework subscribed at start-up
\* (_on_calculation_started, _on_calculation_completed, _on_error_occurred).
AdvancedTransformationFramework_calculate_bmr(m) ==
    /\ result' = Advanced_dispatch(profile_data.weight_kg, profile_data.height_cm,
                                   profile_data.age, profile_data.gender, m)
    /\ LET r  == result'
           h1 == EventBus_publish(event_history, "calculation_started", m)
       IN  /\ event_history' =
                  EventBus_publish(h1, IF r.ok THEN "calculation_completed"
                                       ELSE "error_occurred", m)
           /\ counters' =
                  [calculations_started |-> counters.calculations_started + 1,
                   calculations_completed |->
                       counters.calculations_completed + (IF r.ok THEN 1 ELSE 0),
                   errors_total |-> counters.errors_total + (IF r.ok THEN 0 ELSE 1)]
           /\ bmr_calculations' =
                  IF r.ok THEN AdvancedBMRCalculator_increment(bmr_calculations, m)
                  ELSE bmr_calculations
    /\ request_method' = m
    /\ engine' = "AdvancedTransformationFramework"
    /\ calls' = calls + 1
    /\ UNCHANGED <<profile_data, profile, calculations_performed, tie_up>>

\* ExampleBMRStrategy.calculate(profile, context) applied to the profile.
ExampleBMRStrategy_calculate_call ==
    /\ result' = ExampleBMRStrategy_calculate(profile_data)
    /\ request_method' = "mifflin_st_jeor"
    /\ engine' = "ExampleBMRStrategy"
    /\ calls' = calls + 1
    /\ UNCHANGED <<profile_data, profile, calculations_performed, event_history,
                   counters, bmr_calculations, tie_up>>

\* result['confidence'] = strategy.get_confidence(profile, result), the step
\* TransformationFramework.calculate takes on the result of strategy.calculate.
ExampleBMRStrategy_get_confidence_call ==
    /\ engine = "ExampleBMRStrategy"
    /\ result.ok
    /\ "confidence" \notin DOMAIN result
    /\ result' = IF profile_data.height_cm = 0 THEN Raise("ZeroDivisionError")
                 ELSE [ok |-> TRUE, bmr |-> result.bmr, method |-> result.method,
                       components |-> result.components,
                       confidence |-> ExampleBMRStrategy_get_confidence(profile_data)]
    /\ UNCHANGED <<profile_data, profile, request_method, engine,
                   calculations_performed, event_history, counters,
                   bmr_calculations, calls, tie_up>>

\* One behaviour makes at most MaxCalls calls.
Next ==
    \/ \E m \in MethodValues :
           /\ calls < MaxCalls
           /\ FrameworkService_calculate_bmr(m)
           /\ UNCHANGED <<concurrent_vars, transport_vars, framework_vars, component_vars>>
    \/ \E m \in MethodValues :
           /\ calls < MaxCalls
           /\ AdvancedTransformationFramework_calculate_bmr(m)
           /\ UNCHANGED <<concurrent_vars, transport_vars, framework_vars, component_vars>>
    \/ /\ calls < MaxCalls
       /\ ExampleBMRStrategy_calculate_call
       /\ UNCHANGED <<concurrent_vars, transport_vars, framework_vars, component_vars>>
    \/ /\ ExampleBMRStrategy_get_confidence_call
       /\ UNCHANGED <<concurrent_vars, transport_vars, framework_vars, component_vars>>

Spec == Init /\ [][Next]_vars

\* ------------------------------- BMRCalculator called on one profile object
\* A caller that holds one UserProfile and calls the static methods of
\* BMRCalculator on it, one after the other: the object keeps what a call
\* wrote into it.
InitCalculator ==
    /\ Init
    /\ ValidProfile(profile_data)

\* BMRCalculator.<m>(profile) on the caller's profile object.
BMRCalculator_call(m) ==
    /\ result' = calculator_methods(m, profile)
    /\ profile' = IF m = "katch_mcardle" THEN katch_mcardle_profile(profile) ELSE profile
    /\ request_method' = m
    /\ engine' = "BMRCalculator"
    /\ calls' = calls + 1
    /\ UNCHANGED <<profile_data, calculations_performed, event_history, counters,
                   bmr_calculations, tie_up>>
    /\ UNCHANGED <<concurrent_vars, transport_vars, framework_vars, component_vars>>

NextCalculator ==
    \E m \in KnownMethods : calls < MaxCalculatorCalls /\ BMRCalculator_call(m)

SpecCalculator == InitCalculator /\ [][NextCalculator]_vars

\* ------------------ AdvancedTransformationFramework called again and again
\* Requests the advanced framework serves in a row: one that computes, one
\* whose height makes the scorer divide by zero.
AdvancedRequests ==
    { UserProfile(75, 180, 30, "male", None),
      UserProfile(45, 160, 70, "female", None),
      UserProfile(75, 0, 30, "male", None) }

InitAdvanced ==
    /\ Init
    /\ profile_data \in AdvancedRequests

NextAdvanced ==
    \E m \in MethodValues :
        /\ calls < MaxAdvancedCalls
        /\ AdvancedTransformationFramework_calculate_bmr(m)
        /\ UNCHANGED <<concurrent_vars, transport_vars, framework_vars, component_vars>>

SpecAdvanced == InitAdvanced /\ [][NextAdvanced]_vars

\* ------------------------------------- threads calling without a lock
\* The profiles the threads share.
ConcurrentProfiles ==
    { UserProfile(75, 180, 30, "male", None),
      UserProfile(75, 180, 30, "male", Some(Int2Rat(15))) }

InitConcurrent ==
    /\ Init
    /\ profile_data \in ConcurrentProfiles

\* A thread enters FrameworkService.calculate_bmr(profile_data, m): the
\* service builds the thread's own UserProfile and computes; what is left
\* of the call is self.calculations_performed += 1.
Thread_FrameworkService_calculate_bmr(t, m) ==
    /\ threads[t].pc = "idle"
    /\ LET r == calculator_methods(m, profile_data)
       IN  threads' = [threads EXCEPT ![t] =
               [pc |-> IF r.ok THEN "counter_load" ELSE "done",
                op |-> "FrameworkService", method |-> m, local |-> 0, result |-> r]]
    /\ UNCHANGED <<service_vars, transport_vars, framework_vars, component_vars>>

\* self.calculations_performed += 1, first half: the attribute is read.
Thread_calculations_performed_load(t) ==
    /\ threads[t].pc = "counter_load"
    /\ threads' = [threads EXCEPT ![t].pc = "counter_store",
                                  ![t].local = calculations_performed]
    /\ UNCHANGED <<service_vars, transport_vars, framework_vars, component_vars>>

\* self.calculations_performed += 1, second half: the sum is stored.
Thread_calculations_performed_store(t) ==
    /\ threads[t].pc = "counter_store"
    /\ calculations_performed' = threads[t].local + 1
    /\ threads' = [threads EXCEPT ![t].pc = "done"]
    /\ UNCHANGED <<profile_data, profile, request_method, engine, result,
                   event_history, counters, bmr_calculations, calls, tie_up>>
    /\ UNCHANGED <<transport_vars, framework_vars, component_vars>>

\* A thread calls BMRCalculator.<m>(profile) on the profile object the
\* threads share. The call is taken as one step: finer interleavings only
\* add outcomes.
Thread_BMRCalculator_call(t, m) ==
    /\ threads[t].pc = "idle"
    /\ threads' = [threads EXCEPT ![t] =
           [pc |-> "done", op |-> "BMRCalculator", method |-> m, local |-> 0,
            result |-> calculator_methods(m, profile)]]
    /\ profile' = IF m = "katch_mcardle" THEN katch_mcardle_profile(profile) ELSE profile
    /\ UNCHANGED <<profile_data, request_method, engine, result, calculations_performed,
                   event_history, counters, bmr_calculations, calls, tie_up>>
    /\ UNCHANGED <<transport_vars, framework_vars, component_vars>>

\* MetricsCollector.increment_counter('calculations_started', ...), the
\* read of self.counters[key] += value.
Thread_increment_counter_load(t) ==
    /\ threads[t].pc = "idle"
    /\ threads' = [threads EXCEPT ![t] =
           [pc |-> "metric_store", op |-> "MetricsCollector", method |-> "none",
            local |-> counters.calculations_started, result |-> threads[t].result]]
    /\ UNCHANGED <<service_vars, transport_vars, framework_vars, component_vars>>

\* MetricsCollector.increment_counter, the store of self.counters[key] += value.
Thread_increment_counter_store(t) ==
    /\ threads[t].pc = "metric_store"
    /\ counters' = [counters EXCEPT !.calculations_started = threads[t].local + 1]
    /\ threads' = [threads EXCEPT ![t].pc = "done"]
    /\ UNCHANGED <<profile_data, profile, request_method, engine, result,
                   calculations_performed, event_history, bmr_calculations, calls, tie_up>>
    /\ UNCHANGED <<transport_vars, framework_vars, component_vars>>

NextConcurrent ==
    \E t \in Threads :
        \/ \E m \in MethodValues : Thread_FrameworkService_calculate_bmr(t, m)
        \/ Thread_calculations_performed_load(t)
        \/ Thread_calculations_performed_store(t)
        \/ \E m \in KnownMethods : Thread_BMRCalculator_call(t, m)
        \/ Thread_increment_counter_load(t)
        \/ Thread_increment_counter_store(t)

SpecConcurrent == InitConcurrent /\ [][NextConcurrent]_vars

\* ---------------------------- the transports: process_command, handle_request
\* What a handler can find in the numeric fields of a request: numbers,
\* numbers written as text ('75'), a field that is missing, a field that is
\* not numeric ('abc').
FieldStates == {"numbers", "numeric_text", "missing_field", "non_numeric"}

\* float(...) and int(...) of the numeric fields: the exception they raise,
\* "" when they return the numbers (text that spells a number converts).
ConvertFields(fields) ==
    CASE fields = "missing_field" -> "KeyError"
      [] fields = "non_numeric"   -> "ValueError"
      [] OTHER                    -> ""

\* The method names a request can carry, or none at all.
RequestMethods == {"mifflin_st_jeor", "katch_mcardle", "nonexistent_method", "absent"}

\* The contents of a calculate_bmr request: fields that convert, with any
\* method; fields that do not convert (the method is then never looked at).
CalculateRequests ==
    { <<f, m>> \in FieldStates \X RequestMethods : f = "numbers" \/ m = "absent" }

CommandActions == {"calculate_bmr", "health_check", "unknown_action", "absent"}

RequestOperations ==
    {"calculate_bmr", "health_check", "get_metrics", "unknown_operation", "absent"}

\* The JSON text handle_request is given: an object, another JSON value
\* (a list, null), or text that is not JSON.
RequestShapes == {"object", "array", "not_json"}

\* {'success': False, 'error': str(e)}
Failure(e) == [success |-> FALSE, error |-> e]

\* {'success': True, ...}
Success == [success |-> TRUE, error |-> ""]

\* process_command(command), command a dict as main() passes it on.
process_command(a, f, m, plugin_name) ==
    /\ command' = [handler |-> "process_command", shape |-> "object", action |-> a,
                   fields |-> f, method |-> m]
    /\ IF a = "calculate_bmr" /\ ConvertFields(f) = ""
       THEN /\ FrameworkService_calculate_bmr(IF m = "absent" THEN "mifflin_st_jeor" ELSE m)
            /\ response' = IF result'.ok THEN Success ELSE Failure(result'.error)
            /\ answered' = IF result'.ok THEN answered + 1 ELSE answered
            /\ UNCHANGED <<service_plugins, health>>
       ELSE /\ response' =
                   CASE a = "calculate_bmr" -> Failure(ConvertFields(f))
                     [] a = "health_check"  -> Success
                     [] a = "load_plugin"   -> Success
                     [] a = "unload_plugin" ->
                            IF plugin_name \in service_plugins THEN Success
                            ELSE Failure("")
                     [] OTHER               -> Failure("Unknown action")
            /\ service_plugins' =
                   CASE a = "load_plugin"   -> service_plugins \cup {plugin_name}
                     [] a = "unload_plugin" -> service_plugins \ {plugin_name}
                     [] OTHER               -> service_plugins
            /\ health' =
                   IF a = "health_check"
                   THEN [calculations_performed |-> calculations_performed,
                         total_plugins |-> Cardinality(service_plugins)]
                   ELSE health
            /\ calls' = calls + 1
            /\ UNCHANGED <<profile_data, profile, request_method, engine, result,
                           calculations_performed, event_history, counters,
                           bmr_calculations, tie_up, answered>>
    /\ UNCHANGED <<concurrent_vars, framework_vars, cache_vars, bus_vars, plugin_vars,
                   experiment_vars>>

\* handle_request(request_data)
handle_request(shape, op, f, m) ==
    /\ command' = [handler |-> "handle_request", shape |-> shape, action |-> op,
                   fields |-> f, method |-> m]
    /\ IF shape = "object" /\ op = "calculate_bmr" /\ ConvertFields(f) = ""
       THEN /\ AdvancedTransformationFramework_calculate_bmr(
                   IF m = "absent" THEN "adaptive_ensemble" ELSE m)
            /\ response' = IF result'.ok THEN Success ELSE Failure(result'.error)
       ELSE /\ response' =
                   CASE shape = "not_json"   -> Failure("JSONDecodeError")
                     [] shape = "array"      -> Failure("AttributeError")
                     [] op = "calculate_bmr" -> Failure(ConvertFields(f))
                     [] op = "health_check"  ->
                            IF event_history = << >> THEN Success
                            ELSE Failure("TypeError")
                     [] op = "get_metrics"   -> Success
                     [] OTHER                -> Failure("Unknown operation")
            /\ calls' = calls + 1
            /\ UNCHANGED <<profile_data, profile, request_method, engine, result,
                           calculations_performed, event_history, counters,
                           bmr_calculations, tie_up>>
    /\ UNCHANGED <<concurrent_vars, framework_vars, component_vars>>

\* The profiles the requests carry.
TransportProfiles ==
    { UserProfile(75, 180, 30, "male", None),
      UserProfile(75, 0, 30, "male", None),
      UserProfile(45, 160, 70, "female", Some(Int2Rat(15))) }

InitTransport ==
    /\ Init
    /\ profile_data \in TransportProfiles

NextTransport ==
    \/ \E c \in CalculateRequests :
           calls < MaxTransportCalls /\ process_command("calculate_bmr", c[1], c[2], "absent")
    \/ \E a \in CommandActions \ {"calculate_bmr"} :
           calls < MaxTransportCalls /\ process_command(a, "numbers", "absent", "absent")
    \/ \E c \in CalculateRequests :
           calls < MaxTransportCalls
               /\ handle_request("object", "calculate_bmr", c[1], c[2])
    \/ \E op \in RequestOperations \ {"calculate_bmr"} :
           calls < MaxTransportCalls /\ handle_request("object", op, "numbers", "absent")
    \/ \E shape \in RequestShapes \ {"object"} :
           calls < MaxTransportCalls /\ handle_request(shape, "absent", "numbers", "absent")

SpecTransport == InitTransport /\ [][NextTransport]_vars

\* One FrameworkService sent calculate_bmr, health_check, load_plugin and
\* unload_plugin commands; a plugin_name the command does not carry is None.
PluginCommandNames == {"nutrition_tracker", "custom_plugin", "absent"}

ServiceRequests ==
    {<<"numbers", "absent">>, <<"numbers", "katch_mcardle">>, <<"non_numeric", "absent">>}

NextService ==
    \/ \E c \in ServiceRequests :
           calls < MaxServiceCalls /\ process_command("calculate_bmr", c[1], c[2], "absent")
    \/ calls < MaxServiceCalls
           /\ process_command("health_check", "numbers", "absent", "absent")
    \/ \E plugin_name \in PluginCommandNames :
           calls < MaxServiceCalls
               /\ process_command("load_plugin", "numbers", "absent", plugin_name)
    \/ \E plugin_name \in PluginCommandNames :
           calls < MaxServiceCalls
               /\ process_command("unload_plugin", "numbers", "absent", plugin_name)

SpecService == InitTransport /\ [][NextService]_vars

\* ------------------- scalable-transformation-framework: TransformationFramework
\* The profiles calculate is called with: one that computes, one whose
\* height makes get_confidence divide by zero.
FrameworkProfiles ==
    { UserProfile(75, 180, 30, "male", None),
      UserProfile(75, 0, 30, "male", None) }

\* The validators an application registers: what each returns (True, False,
\* a dict with is_valid false) or that it raises, and its priority.
Validators ==
    { [name |-> "validate_units",  priority |-> 30, outcome |-> "True"],
      [name |-> "validate_range",  priority |-> 10, outcome |-> "False"],
      [name |-> "validate_schema", priority |-> 20, outcome |-> "is_valid_false"],
      [name |-> "validate_lookup", priority |-> 20, outcome |-> "raises"] }

\* The state after TransformationFramework(): no strategy, no validator,
\* an empty cache, framework_initialized published.
InitFramework ==
    /\ profile_data \in FrameworkProfiles
    /\ profile = profile_data
    /\ request_method = "none"
    /\ engine = "none"
    /\ result = Raise("no call yet")
    /\ calculations_performed = 0
    /\ event_history = <<[type |-> "framework_initialized", method |-> "none"]>>
    /\ counters = [calculations_started |-> 0, calculations_completed |-> 0,
                   errors_total |-> 0]
    /\ bmr_calculations = [m \in AdvancedMethods |-> 0]
    /\ calls = 0
    /\ tie_up = TRUE
    /\ threads = [t \in Threads |-> IdleThread]
    /\ command = NoCommand
    /\ response = NoResponse
    /\ stats = [calculations_performed |-> 0, cache_hits |-> 0, errors_encountered |-> 0]
    /\ cache = {}
    /\ validators = << >>
    /\ validator_calls = << >>
    /\ strategies = << >>
    /\ default_strategy = "none"
    /\ cache_enabled = TRUE
    /\ request = NoRequest
    /\ strategy_calls = 0
    /\ InitComponents

\* The strategies an application registers for 'bmr': ExampleBMRStrategy
\* (strategy_name mifflin_st_jeor_enhanced) and the strategy
\* calculate_with_experiments asks for by the name advanced_bmr.
StrategyNames == {"mifflin_st_jeor_enhanced", "advanced_bmr"}

\* available_strategies of get_best_strategy is not empty.
strategy_registered == strategies # << >>

\* StrategyRegistry.register_strategy('bmr', strategy, is_default)
StrategyRegistry_register_strategy(name, is_default) ==
    /\ \A i \in 1 .. Len(strategies) : strategies[i] # name
    /\ strategies' = Append(strategies, name)
    /\ default_strategy' = IF is_default THEN name ELSE default_strategy
    /\ UNCHANGED <<stats, cache, validators, validator_calls, cache_enabled, request,
                   strategy_calls>>
    /\ UNCHANGED <<service_vars, concurrent_vars, transport_vars, component_vars>>

\* StrategyRegistry.get_best_strategy('bmr', profile, context), for a
\* registry that is not empty: the default strategy, else the first one.
StrategyRegistry_get_best_strategy ==
    IF default_strategy # "none" THEN default_strategy ELSE strategies[1]

\* config_manager.set('framework.cache_enabled', value)
ConfigurationManager_set(value) ==
    /\ cache_enabled # value
    /\ cache_enabled' = value
    /\ UNCHANGED <<stats, cache, validators, validator_calls, strategies,
                   default_strategy, request, strategy_calls>>
    /\ UNCHANGED <<service_vars, concurrent_vars, transport_vars, component_vars>>

\* cache_key = f"{calculation_type}:{strategy_name}:{hash(str(profile))}"
CacheKey(strategy_name, p) == [strategy_name |-> strategy_name, profile |-> p]

\* self.validators.sort(key=lambda x: x[0]) after the append: the sort is
\* stable, the new validator comes after those of its priority.
SortedInsert(vs, v) ==
    LET k == Cardinality({i \in 1 .. Len(vs) : vs[i].priority <= v.priority})
    IN  SubSeq(vs, 1, k) \o <<v>> \o SubSeq(vs, k + 1, Len(vs))

\* ValidationPipeline.add_validator(validator, priority)
ValidationPipeline_add_validator(v) ==
    /\ \A i \in 1 .. Len(validators) : validators[i] # v
    /\ validators' = SortedInsert(validators, v)
    /\ UNCHANGED <<stats, cache, validator_calls, strategies, default_strategy,
                   cache_enabled, request, strategy_calls>>
    /\ UNCHANGED <<service_vars, concurrent_vars, transport_vars, component_vars>>

\* A validation loop that leaves at the first validator that fails.
RECURSIVE ValidationPipeline_validate_until_failure(_)
ValidationPipeline_validate_until_failure(vs) ==
    IF vs = << >> THEN [is_valid |-> TRUE, invoked |-> << >>, validations_run |-> << >>]
    ELSE IF Head(vs).outcome # "True"
         THEN [is_valid |-> FALSE, invoked |-> <<Head(vs).name>>,
               validations_run |-> << >>]
         ELSE LET rest == ValidationPipeline_validate_until_failure(Tail(vs))
              IN  [is_valid |-> rest.is_valid,
                   invoked |-> <<Head(vs).name>> \o rest.invoked,
                   validations_run |-> <<Head(vs).name>> \o rest.validations_run]

\* ValidationPipeline.validate(data, context): the loop over the validators.
\* invoked lists the validators called; validations_run, as in the code,
\* those that returned.
RECURSIVE ValidationPipeline_validate(_)
ValidationPipeline_validate(vs) ==
    IF vs = << >> THEN [is_valid |-> TRUE, invoked |-> << >>, validations_run |-> << >>]
    ELSE LET rest == ValidationPipeline_validate(Tail(vs))
             v    == Head(vs)
         IN  [is_valid |-> v.outcome = "True" /\ rest.is_valid,
              invoked |-> <<v.name>> \o rest.invoked,
              validations_run |->
                  IF v.outcome = "raises" THEN rest.validations_run
                  ELSE <<v.name>> \o rest.validations_run]

\* The entries of the cache stored under a key (none or one).
CacheEntries(c, key) == {e \in c : e.key = key}

\* CacheManager.get that reports the miss and leaves the expired entry in place.
CacheManager_get_keeps_expired(c, key) ==
    LET found == CacheEntries(c, key)
    IN  [hit |-> found # {} /\ \A e \in found : ~e.expired, cache |-> c]

\* CacheManager.get(key): a hit on an entry younger than default_ttl; an
\* expired entry is deleted and counts as a miss.
CacheManager_get(c, key) ==
    LET found == CacheEntries(c, key)
    IN  IF found # {} /\ \A e \in found : ~e.expired
        THEN [hit |-> TRUE, cache |-> c]
        ELSE [hit |-> FALSE, cache |-> c \ found]

\* CacheManager.set(key, value)
CacheManager_set(c, key, value) ==
    (c \ CacheEntries(c, key)) \cup {[key |-> key, value |-> value, expired |-> FALSE]}

\* default_ttl seconds pass after an entry was stored: time.time() -
\* timestamp < self.default_ttl turns false for it.
CacheManager_entry_expires(e) ==
    /\ e \in cache
    /\ ~e.expired
    /\ cache' = (cache \ {e}) \cup {[e EXCEPT !.expired = TRUE]}
    /\ UNCHANGED <<stats, validators, validator_calls, strategies, default_strategy,
                   cache_enabled, request, strategy_calls>>
    /\ UNCHANGED <<service_vars, concurrent_vars, transport_vars, component_vars>>

\* calculation_context that publishes calculation_failed alone on an exception.
calculation_context_without_error_event(ok) ==
    IF ok THEN <<"calculation_started", "calculation_completed">>
    ELSE <<"calculation_started", "calculation_failed">>

\* calculation_context(operation_name): the events it publishes around a
\* body that returns (ok) or raises.
calculation_context(ok) ==
    IF ok THEN <<"calculation_started", "calculation_completed">>
    ELSE <<"calculation_started", "calculation_failed", "error_occurred">>

\* EventBus.publish of each event type in turn.
RECURSIVE EventBus_publish_all(_, _)
EventBus_publish_all(history, types) ==
    IF types = << >> THEN history
    ELSE EventBus_publish_all(EventBus_publish(history, Head(types), "bmr"), Tail(types))

\* _on_calculation_completed and _on_error_occurred, subscribed by
\* _setup_event_handlers, run on the published events.
TransformationFramework_on_events(st, types) ==
    LET count(type) == Cardinality({i \in 1 .. Len(types) : types[i] = type})
    IN  [st EXCEPT !.calculations_performed = @ + count("calculation_completed"),
                   !.errors_encountered = @ + count("error_occurred")]

\* strategy.calculate(processed_profile, context) followed by
\* result['confidence'] = strategy.get_confidence(processed_profile, result)
\* and result['strategy_used'] = strategy.strategy_name. The source holds
\* one strategy class; the strategy registered as advanced_bmr is taken to
\* compute like it under its own name.
TransformationFramework_strategy(strategy, p) ==
    LET r == ExampleBMRStrategy_calculate(p)
    IN  IF ~r.ok THEN r
        ELSE IF p.height_cm = 0 THEN Raise("ZeroDivisionError")
        ELSE [ok |-> TRUE, bmr |-> r.bmr, method |-> r.method,
              components |-> r.components,
              confidence |-> ExampleBMRStrategy_get_confidence(p),
              strategy_used |-> strategy]

\* The body of TransformationFramework.calculate inside calculation_context:
\* what it returns or raises, the cache it leaves, whether the cache hit,
\* the validators it invoked and whether strategy.calculate ran.
TransformationFramework_calculate_body(p, use_cache, strategy_name) ==
    LET key == CacheKey(strategy_name, p)
        looked == IF use_cache /\ cache_enabled THEN CacheManager_get(cache, key)
                  ELSE [hit |-> FALSE, cache |-> cache]
        checked == ValidationPipeline_validate(validators)
    IN  IF looked.hit
        THEN [result |-> (CHOOSE e \in CacheEntries(cache, key) : TRUE).value,
              cache |-> cache, hit |-> TRUE, invoked |-> << >>, calculated |-> FALSE]
        ELSE IF ~strategy_registered
        THEN [result |-> Raise("ValueError: No strategies available"),
              cache |-> looked.cache, hit |-> FALSE, invoked |-> << >>,
              calculated |-> FALSE]
        ELSE IF ~checked.is_valid
        THEN [result |-> Raise("ValueError: Validation failed"),
              cache |-> looked.cache, hit |-> FALSE, invoked |-> checked.invoked,
              calculated |-> FALSE]
        ELSE [result |->
                  TransformationFramework_strategy(StrategyRegistry_get_best_strategy, p),
              cache |-> looked.cache, hit |-> FALSE, invoked |-> checked.invoked,
              calculated |-> TRUE]

\* TransformationFramework.calculate('bmr', profile, strategy_name, use_cache),
\* with the handlers of _setup_event_handlers.
TransformationFramework_calculate(p, use_cache, strategy_name) ==
    /\ LET body == TransformationFramework_calculate_body(p, use_cache, strategy_name)
       IN  /\ result' = body.result
           /\ cache' = IF body.calculated /\ body.result.ok /\ use_cache
                       THEN CacheManager_set(body.cache, CacheKey(strategy_name, p),
                                             body.result)
                       ELSE body.cache
           /\ validator_calls' = body.invoked
           /\ strategy_calls' = strategy_calls + (IF body.calculated THEN 1 ELSE 0)
           /\ event_history' =
                  EventBus_publish_all(event_history, calculation_context(body.result.ok))
           /\ stats' = TransformationFramework_on_events(
                           [stats EXCEPT !.cache_hits = @ + (IF body.hit THEN 1 ELSE 0)],
                           calculation_context(body.result.ok))
    /\ request' = [use_cache |-> use_cache, strategy_name |-> strategy_name]
    /\ profile_data' = p
    /\ profile' = p
    /\ request_method' = "mifflin_st_jeor"
    /\ engine' = "TransformationFramework"
    /\ calls' = calls + 1
    /\ UNCHANGED <<calculations_performed, counters, bmr_calculations, tie_up,
                   validators, strategies, default_strategy, cache_enabled>>
    /\ UNCHANGED <<concurrent_vars, transport_vars, component_vars>>

\* The framework with the one strategy of the source, strategy_name left out.
NextFramework ==
    \/ StrategyRegistry_register_strategy("mifflin_st_jeor_enhanced", FALSE)
    \/ \E v \in Validators : ValidationPipeline_add_validator(v)
    \/ \E e \in cache : CacheManager_entry_expires(e)
    \/ \E p \in FrameworkProfiles, use_cache \in BOOLEAN :
           calls < MaxFrameworkCalls
               /\ TransformationFramework_calculate(p, use_cache, "none")

SpecFramework == InitFramework /\ [][NextFramework]_vars

\* The framework with several strategies, explicit strategy names and the
\* cache switched on and off.
NextStrategies ==
    \/ \E name \in StrategyNames, is_default \in BOOLEAN :
           StrategyRegistry_register_strategy(name, is_default)
    \/ \E value \in BOOLEAN : ConfigurationManager_set(value)
    \/ \E e \in cache : CacheManager_entry_expires(e)
    \/ \E p \in FrameworkProfiles, use_cache \in BOOLEAN,
          strategy_name \in StrategyNames \cup {"none"} :
           calls < MaxStrategyCalls
               /\ TransformationFramework_calculate(p, use_cache, strategy_name)

SpecStrategies == InitFramework /\ [][NextStrategies]_vars

\* -------------------------------------------- CacheManager on its own
InitCache ==
    /\ Init
    /\ profile_data = UserProfile(75, 180, 30, "male", None)
    /\ tie_up = TRUE

\* The variables of the framework a CacheManager call leaves alone.
cache_frame ==
    <<stats, validators, validator_calls, strategies, default_strategy, cache_enabled,
      request, strategy_calls, bus_vars, plugin_vars, session_vars, experiment_vars>>

\* The ttl arguments of set and cache_function: none given, or a number of
\* seconds below default_ttl.
TtlArguments == {0, 1}

\* CacheManager.set(key, value, ttl): the ttl argument is not stored.
CacheManager_set_call(key, value, ttl) ==
    /\ cache' = CacheManager_set(cache, key, value)
    /\ timestamps' = [timestamps EXCEPT ![key] = 0]
    /\ last_set' = [last_set EXCEPT
                       ![key] = [value |-> value,
                                 ttl |-> IF ttl = 0 THEN default_ttl ELSE ttl]]
    /\ UNCHANGED <<hit_counts, miss_counts, gets, got, ticks>>
    /\ UNCHANGED cache_frame
    /\ UNCHANGED <<service_vars, concurrent_vars, transport_vars>>

\* CacheManager.get(key) with its hit and miss counts.
CacheManager_get_call(key) ==
    /\ cache' = CacheManager_get(cache, key).cache
    /\ got' = IF CacheManager_get(cache, key).hit
              THEN [caller |-> "get", key |-> key, hit |-> TRUE,
                    value |-> (CHOOSE e \in CacheEntries(cache, key) : TRUE).value]
              ELSE [caller |-> "get", key |-> key, hit |-> FALSE, value |-> "none"]
    /\ hit_counts' = IF got'.hit THEN [hit_counts EXCEPT ![key] = @ + 1] ELSE hit_counts
    /\ miss_counts' = IF got'.hit THEN miss_counts
                      ELSE [miss_counts EXCEPT ![key] = @ + 1]
    /\ timestamps' = IF CacheEntries(cache', key) = {}
                     THEN [timestamps EXCEPT ![key] = 0] ELSE timestamps
    /\ gets' = gets + 1
    /\ UNCHANGED <<last_set, ticks>>
    /\ UNCHANGED cache_frame
    /\ UNCHANGED <<service_vars, concurrent_vars, transport_vars>>

\* A call of a function wrapped by cache_function(ttl): a get; on a miss the
\* function runs and its result is set.
CacheManager_cache_function_call(key, value, ttl) ==
    /\ got' = IF CacheManager_get(cache, key).hit
              THEN [caller |-> "cache_function", key |-> key, hit |-> TRUE,
                    value |-> (CHOOSE e \in CacheEntries(cache, key) : TRUE).value]
              ELSE [caller |-> "cache_function", key |-> key, hit |-> FALSE, value |-> "none"]
    /\ cache' = IF got'.hit THEN cache
                ELSE CacheManager_set(CacheManager_get(cache, key).cache, key, value)
    /\ hit_counts' = IF got'.hit THEN [hit_counts EXCEPT ![key] = @ + 1] ELSE hit_counts
    /\ miss_counts' = IF got'.hit THEN miss_counts
                      ELSE [miss_counts EXCEPT ![key] = @ + 1]
    /\ timestamps' = IF got'.hit THEN timestamps ELSE [timestamps EXCEPT ![key] = 0]
    /\ last_set' = IF got'.hit THEN last_set
                   ELSE [last_set EXCEPT
                            ![key] = [value |-> value,
                                      ttl |-> IF ttl = 0 THEN default_ttl ELSE ttl]]
    /\ gets' = gets + 1
    /\ UNCHANGED ticks
    /\ UNCHANGED cache_frame
    /\ UNCHANGED <<service_vars, concurrent_vars, transport_vars>>

\* One second passes: an entry whose age reaches default_ttl no longer
\* passes time.time() - timestamp < self.default_ttl.
CacheManager_second_passes ==
    /\ ticks' = ticks + 1
    /\ timestamps' = [k \in CacheKeys |->
                         IF CacheEntries(cache, k) = {} THEN 0 ELSE timestamps[k] + 1]
    /\ cache' = {[e EXCEPT !.expired = timestamps'[e.key] >= default_ttl] : e \in cache}
    /\ UNCHANGED <<last_set, hit_counts, miss_counts, gets, got>>
    /\ UNCHANGED cache_frame
    /\ UNCHANGED <<service_vars, concurrent_vars, transport_vars>>

NextCache ==
    \/ \E key \in CacheKeys, value \in CacheValues, ttl \in TtlArguments :
           CacheManager_set_call(key, value, ttl)
    \/ \E key \in CacheKeys : gets < MaxGets /\ CacheManager_get_call(key)
    \/ \E key \in CacheKeys, ttl \in TtlArguments :
           gets < MaxGets /\ CacheManager_cache_function_call(key, "v1", ttl)
    \/ ticks < MaxTicks /\ CacheManager_second_passes

SpecCache == InitCache /\ [][NextCache]_vars

\* ------------------------------------------------- EventBus on its own
\* The callbacks an application subscribes: each returns its name or raises.
Callbacks ==
    { [name |-> "metrics", priority |-> 10,  raises |-> FALSE],
      [name |-> "alert",   priority |-> 100, raises |-> TRUE],
      [name |-> "audit",   priority |-> 100, raises |-> FALSE] }

InitEventBus ==
    /\ Init
    /\ profile_data = UserProfile(75, 180, 30, "male", None)
    /\ tie_up = TRUE

\* EventBus.subscribe(event_type, callback, priority): append, then sort by
\* priority.
EventBus_subscribe(type, callback) ==
    /\ \A i \in 1 .. Len(subscribers[type]) : subscribers[type][i] # callback
    /\ subscribers' = [subscribers EXCEPT ![type] = SortedInsert(@, callback)]
    /\ UNCHANGED <<invoked, returned, published>>
    /\ UNCHANGED <<service_vars, concurrent_vars, transport_vars, framework_vars,
                   cache_vars, plugin_vars, session_vars, experiment_vars>>

\* A notification loop that ends at the first callback that raises.
RECURSIVE EventBus_notify_until_failure(_)
EventBus_notify_until_failure(subs) ==
    IF subs = << >> THEN [invoked |-> << >>, results |-> << >>]
    ELSE IF Head(subs).raises THEN [invoked |-> <<Head(subs).name>>, results |-> << >>]
    ELSE LET rest == EventBus_notify_until_failure(Tail(subs))
         IN  [invoked |-> <<Head(subs).name>> \o rest.invoked,
              results |-> <<Head(subs).name>> \o rest.results]

\* The loop of EventBus.publish over self._subscribers[event_type]: the
\* callbacks invoked and the results collected.
RECURSIVE EventBus_notify(_)
EventBus_notify(subs) ==
    IF subs = << >> THEN [invoked |-> << >>, results |-> << >>]
    ELSE LET rest == EventBus_notify(Tail(subs))
         IN  [invoked |-> <<Head(subs).name>> \o rest.invoked,
              results |-> IF Head(subs).raises THEN rest.results
                          ELSE <<Head(subs).name>> \o rest.results]

\* EventBus.publish(event_type, data), data the number of the publication.
EventBus_publish_call(type) ==
    /\ event_history' = EventBus_publish(event_history, type, published + 1)
    /\ invoked' = EventBus_notify(subscribers[type]).invoked
    /\ returned' = EventBus_notify(subscribers[type]).results
    /\ published' = published + 1
    /\ UNCHANGED subscribers
    /\ UNCHANGED <<profile_data, profile, request_method, engine, result,
                   calculations_performed, counters, bmr_calculations, calls, tie_up>>
    /\ UNCHANGED <<concurrent_vars, transport_vars, framework_vars, cache_vars,
                   plugin_vars, session_vars, experiment_vars>>

NextEventBus ==
    \/ \E type \in EventTypes, callback \in Callbacks : EventBus_subscribe(type, callback)
    \/ \E type \in EventTypes :
           published < MaxBusPublishes /\ EventBus_publish_call(type)

SpecEventBus == InitEventBus /\ [][NextEventBus]_vars

\* A bus with no subscriber, one that returns or one that raises, on which
\* events are published until the history has dropped events.
InitHistory ==
    /\ Init
    /\ profile_data = UserProfile(75, 180, 30, "male", None)
    /\ tie_up = TRUE

NextHistory ==
    \/ \E callback \in Callbacks :
           /\ published = 0
           /\ subscribers["calculation_started"] = << >>
           /\ EventBus_subscribe("calculation_started", callback)
    \/ published < MaxPublishes /\ EventBus_publish_call("calculation_started")

SpecHistory == InitHistory /\ [][NextHistory]_vars

\* ---------------------------------------------- PluginManager on its own
\* The plugin files on disk: metadata.name and metadata.dependencies of the
\* plugin class each file defines.
PluginNames == {"base", "addon", "report"}

PluginDependencies ==
    [name \in PluginNames |->
        CASE name = "base"   -> {}
          [] name = "addon"  -> {"base"}
          [] name = "report" -> {"base", "addon"}]

InitPlugins ==
    /\ Init
    /\ profile_data = UserProfile(75, 180, 30, "male", None)
    /\ tie_up = TRUE

plugin_frame ==
    /\ UNCHANGED <<profile_data, profile, request_method, engine, result,
                   calculations_performed, counters, bmr_calculations, calls, tie_up>>
    /\ UNCHANGED <<concurrent_vars, transport_vars, framework_vars, cache_vars,
                   bus_vars, session_vars, experiment_vars>>

\* PluginManager._check_dependencies(dependencies).
PluginManager_check_dependencies(dependencies) == dependencies \subseteq plugins

\* PluginManager.load_plugin(plugin_path) for the file that defines the
\* plugin name; initializes is what plugin_instance.initialize returns.
PluginManager_load_plugin(name, initializes) ==
    /\ plugin_calls' = plugin_calls + 1
    /\ IF PluginManager_check_dependencies(PluginDependencies[name]) /\ initializes
       THEN /\ plugins' = plugins \cup {name}
            /\ event_history' = EventBus_publish(event_history, "plugin_loaded", name)
            /\ plugin_returned' = [call |-> "load_plugin", name |-> name, value |-> TRUE]
       ELSE /\ plugin_returned' = [call |-> "load_plugin", name |-> name, value |-> FALSE]
            /\ UNCHANGED <<plugins, event_history>>
    /\ plugin_frame

\* PluginManager.unload_plugin(plugin_name).
PluginManager_unload_plugin(name) ==
    /\ plugin_calls' = plugin_calls + 1
    /\ IF name \in plugins
       THEN /\ plugins' = plugins \ {name}
            /\ event_history' = EventBus_publish(event_history, "plugin_unloaded", name)
            /\ plugin_returned' = [call |-> "unload_plugin", name |-> name, value |-> TRUE]
       ELSE /\ plugin_returned' = [call |-> "unload_plugin", name |-> name, value |-> FALSE]
            /\ UNCHANGED <<plugins, event_history>>
    /\ plugin_frame

NextPlugins ==
    \/ \E name \in PluginNames, initializes \in BOOLEAN :
           plugin_calls < MaxPluginCalls /\ PluginManager_load_plugin(name, initializes)
    \/ \E name \in PluginNames :
           plugin_calls < MaxPluginCalls /\ PluginManager_unload_plugin(name)

SpecPlugins == InitPlugins /\ [][NextPlugins]_vars

\* ------------------------------------------ ExperimentManager on its own
\* The create_experiment calls an application makes; allocations are written in
\* percent, in the order of the traffic_allocation dict.
ExperimentDefinitions ==
    { [name |-> <<"bmr">>, variants |-> <<"control", "treatment">>,
       traffic_allocation |-> <<[variant |-> "control", allocation |-> 50],
                                [variant |-> "treatment", allocation |-> 50]>>],
      [name |-> <<"bmr", "v2">>, variants |-> <<"standard", "personalized">>,
       traffic_allocation |-> <<[variant |-> "standard", allocation |-> 50],
                                [variant |-> "personalized", allocation |-> 50]>>],
      [name |-> <<"macro">>, variants |-> <<"standard">>,
       traffic_allocation |-> <<[variant |-> "standard", allocation |-> 50],
                                [variant |-> "ml_optimized", allocation |-> 50]>>],
      [name |-> <<"macro">>, variants |-> <<"standard", "ml_optimized">>,
       traffic_allocation |-> <<[variant |-> "standard", allocation |-> 70],
                                [variant |-> "ml_optimized", allocation |-> 20]>>] }

\* (hash_value % 10000) / 10000.0 of the md5 hash of a key, in percent.
HashPercentages == {10, 90}

InitExperiments ==
    /\ Init
    /\ profile_data = UserProfile(75, 180, 30, "male", None)
    /\ tie_up = TRUE

experiment_frame ==
    UNCHANGED <<service_vars, concurrent_vars, transport_vars, framework_vars,
                cache_vars, bus_vars, plugin_vars, session_vars>>

\* sum(traffic_allocation.values())
RECURSIVE SumAllocation(_)
SumAllocation(traffic_allocation) ==
    IF traffic_allocation = << >> THEN 0
    ELSE Head(traffic_allocation).allocation + SumAllocation(Tail(traffic_allocation))

\* ExperimentManager.create_experiment(name, variants, traffic_allocation)
ExperimentManager_create_experiment(d) ==
    /\ experiment_calls' = experiment_calls + 1
    /\ IF SumAllocation(d.traffic_allocation) # 100
       THEN /\ experiment_returned' = [call |-> "create_experiment", experiment |-> d.name,
                                       user |-> << >>, value |-> "ValueError"]
            /\ UNCHANGED experiments
       ELSE /\ experiment_returned' = [call |-> "create_experiment", experiment |-> d.name,
                                       user |-> << >>, value |-> "none"]
            /\ experiments' =
                   [experiments EXCEPT ![d.name] =
                       <<[variants |-> d.variants,
                          traffic_allocation |-> d.traffic_allocation,
                          active |-> TRUE]>>]
    /\ UNCHANGED <<participant_assignments, experiment_results>>
    /\ experiment_frame

\* assignment_key = f"{experiment_name}:{user_id}"
AssignmentKey(experiment_name, user_id) == experiment_name \o user_id

\* The loop of assign_variant over traffic_allocation.items(): the first
\* variant whose cumulative allocation exceeds the percentage, else the
\* fallback.
RECURSIVE ExperimentManager_allocate(_, _, _, _)
ExperimentManager_allocate(traffic_allocation, percentage, cumulative, fallback) ==
    IF traffic_allocation = << >> THEN fallback
    ELSE IF percentage < cumulative + Head(traffic_allocation).allocation
         THEN Head(traffic_allocation).variant
         ELSE ExperimentManager_allocate(Tail(traffic_allocation), percentage,
                  cumulative + Head(traffic_allocation).allocation, fallback)

\* ExperimentManager.assign_variant(experiment_name, user_id); percentage is
\* what the hash of the key gives.
ExperimentManager_assign_variant(experiment_name, user_id, percentage) ==
    /\ experiment_calls' = experiment_calls + 1
    /\ IF experiments[experiment_name] = << >>
       THEN /\ experiment_returned' = [call |-> "assign_variant",
                                       experiment |-> experiment_name,
                                       user |-> user_id, value |-> "ValueError"]
            /\ UNCHANGED participant_assignments
       ELSE LET experiment == experiments[experiment_name][1]
                key == AssignmentKey(experiment_name, user_id)
                stored == {a \in participant_assignments : a.key = key}
                variant ==
                    IF ~experiment.active THEN experiment.variants[1]
                    ELSE IF stored # {} THEN (CHOOSE a \in stored : TRUE).variant
                    ELSE ExperimentManager_allocate(experiment.traffic_allocation,
                             percentage, 0, experiment.variants[1])
            IN  /\ experiment_returned' = [call |-> "assign_variant",
                                           experiment |-> experiment_name,
                                           user |-> user_id, value |-> variant]
                /\ participant_assignments' =
                       IF experiment.active /\ stored = {}
                       THEN participant_assignments \cup {[key |-> key, variant |-> variant]}
                       ELSE participant_assignments
    /\ UNCHANGED <<experiments, experiment_results>>
    /\ experiment_frame

\* ExperimentManager.record_result(experiment_name, user_id, metric_name, value)
ExperimentManager_record_result(experiment_name, user_id) ==
    /\ experiment_calls' = experiment_calls + 1
    /\ LET stored == {a \in participant_assignments :
                          a.key = AssignmentKey(experiment_name, user_id)}
       IN  experiment_results' =
               IF stored # {}
               THEN Append(experiment_results,
                           [experiment |-> experiment_name, user_id |-> user_id,
                            variant |-> (CHOOSE a \in stored : TRUE).variant])
               ELSE experiment_results
    /\ experiment_returned' = [call |-> "record_result", experiment |-> experiment_name,
                               user |-> user_id, value |-> "none"]
    /\ UNCHANGED <<experiments, participant_assignments>>
    /\ experiment_frame

NextExperiments ==
    \/ \E d \in ExperimentDefinitions :
           experiment_calls < MaxExperimentCalls /\ ExperimentManager_create_experiment(d)
    \/ \E experiment_name \in ExperimentNames, user_id \in UserIds,
             percentage \in HashPercentages :
           experiment_calls < MaxExperimentCalls
               /\ ExperimentManager_assign_variant(experiment_name, user_id, percentage)
    \/ \E experiment_name \in ExperimentNames, user_id \in UserIds :
           experiment_calls < MaxExperimentCalls
               /\ ExperimentManager_record_result(experiment_name, user_id)

SpecExperiments == InitExperiments /\ [][NextExperiments]_vars

\* =================================================================== claims
Requested(e, m) == engine = e /\ request_method = m

\* The profile invariant on the inputs the serving entry point receives:
\* FrameworkService takes the whole profile, the other two take no body fat.
ValidInputs ==
    IF engine = "FrameworkService"
    THEN ValidProfile(profile_data)
    ELSE profile_data.weight_kg > 0 /\ profile_data.height_cm > 0 /\ profile_data.age > 0

\* x is a multiple of 1/scale.
MultipleOf(x, scale) == scale % x.d = 0

\* x as a count of 1/scale, for a multiple of 1/scale.
Units(x, scale) == x.n * (scale \div x.d)

\* |x - y| <= 0.05: x is y to one decimal, whichever way a tie went.
WithinRounding(x, y) == RLe(RAbs(RSub(x, y)), Rat(1, 20))

ExampleProfile(bf) == UserProfile(75, 180, 30, "male", bf)

\* ---- C1
C1_Served ==
    \/ Requested("FrameworkService", "mifflin_st_jeor")
    \/ Requested("AdvancedTransformationFramework", "mifflin_st_jeor")
    \/ engine = "ExampleBMRStrategy"

\* 100 * (10 w + 6.25 h - 5 a + (5 if male else -161))
C1_Exact100 ==
    1000 * profile_data.weight_kg + 625 * profile_data.height_cm
        - 500 * profile_data.age
        + (IF profile_data.gender = "male" THEN 500 ELSE -16100)

\* C1: on every valid profile each Mifflin-St Jeor implementation returns
\* 10 w + 6.25 h - 5 a + (5 if male else -161) rounded to one decimal: a
\* multiple of 0.1 within 0.05 of the exact value; 75 kg, 180 cm, 30, male
\* gives 1730.0.
C1_MifflinFormula ==
    (C1_Served /\ ValidInputs) =>
        /\ result.ok
        /\ MultipleOf(result.bmr, 10)
        /\ Abs(Units(result.bmr, 100) - C1_Exact100) <= 5
        /\ (\E bf \in BodyFatValues : profile_data = ExampleProfile(bf))
               => result.bmr = Int2Rat(1730)

C1_Witness ==
    /\ Requested("FrameworkService", "mifflin_st_jeor")
    /\ profile_data = ExampleProfile(None)
    /\ result.ok
    /\ result.bmr = Int2Rat(1730)

\* ---- C2
C2_Served ==
    \/ Requested("FrameworkService", "harris_benedict")
    \/ Requested("AdvancedTransformationFramework", "harris_benedict")

\* 1000 * the Harris-Benedict value of the profile's own gender
C2_Exact1000 ==
    IF profile_data.gender = "male"
    THEN 88362 + 13397 * profile_data.weight_kg + 4799 * profile_data.height_cm
             - 5677 * profile_data.age
    ELSE 447593 + 9247 * profile_data.weight_kg + 3098 * profile_data.height_cm
             - 4330 * profile_data.age

\* C2: on every valid profile each Harris-Benedict implementation returns, to
\* one decimal, 88.362 + 13.397 w + 4.799 h - 5.677 a for a male profile and
\* 447.593 + 9.247 w + 3.098 h - 4.330 a for a female profile.
C2_HarrisFormula ==
    (C2_Served /\ ValidInputs) =>
        /\ result.ok
        /\ MultipleOf(result.bmr, 10)
        /\ Abs(Units(result.bmr, 1000) - C2_Exact1000) <= 50

C2_Witness ==
    /\ Requested("AdvancedTransformationFramework", "harris_benedict")
    /\ profile_data.gender = "female"
    /\ ValidInputs
    /\ result.ok
    /\ Abs(Units(result.bmr, 1000) - C2_Exact1000) <= 50
\* ---- C3
\* 370 + 21.6 * weight_kg * (1 - bf / 100)
KatchValue(weight_kg, bf) ==
    RAdd(Int2Rat(370),
         RMul(Rat(216, 10),
              RMul(Int2Rat(weight_kg), RSub(Int2Rat(1), RDiv(bf, Int2Rat(100))))))

\* C3: on every valid profile with a supplied body_fat_percentage, Katch-McArdle
\* returns 370 + 21.6 * weight_kg * (1 - body_fat_percentage / 100), to one
\* decimal, computed from the supplied value.
C3_KatchFromSuppliedBodyFat ==
    (/\ Requested("FrameworkService", "katch_mcardle")
     /\ ValidProfile(profile_data)
     /\ profile_data.body_fat_percentage # None) =>
        /\ result.ok
        /\ WithinRounding(result.bmr,
               KatchValue(profile_data.weight_kg, profile_data.body_fat_percentage[1]))

\* ---- C4
\* C4: a request whose method is none of the four known names fails with an
\* unknown-method error and never returns a result.
C4_UnknownMethodFails ==
    (/\ engine \in {"FrameworkService", "AdvancedTransformationFramework"}
     /\ request_method \notin KnownMethods) =>
        /\ ~result.ok
        /\ result.error = "ValueError"

\* ---- C5
\* C5: a request whose profile breaks the invariant fails with an
\* invalid-profile error: no result, and no other kind of error.
C5_InvalidProfileFails ==
    (/\ \/ engine = "FrameworkService" /\ request_method \in KnownMethods
        \/ engine = "AdvancedTransformationFramework" /\ request_method \in AdvancedMethods
        \/ engine = "ExampleBMRStrategy"
     /\ ~ValidInputs) =>
        /\ ~result.ok
        /\ result.error = "InvalidProfileError"

\* ---- C6
\* C6: for each of the four method names and every valid profile the entry
\* point returns a result whose method field is the requested name.
C6_MethodFieldIsRequested ==
    (/\ engine \in {"FrameworkService", "AdvancedTransformationFramework"}
     /\ request_method \in KnownMethods
     /\ ValidInputs) =>
        /\ result.ok
        /\ result.method = request_method

\* ---- C7
\* 1.20 * bmi + 0.23 * age - (16.2 if male else 5.4), bmi = w / (h / 100)^2,
\* over the common denominator 100 h^2.
C7_Raw ==
    Rat(1200000 * profile_data.weight_kg
          + (23 * profile_data.age
               - (IF profile_data.gender = "male" THEN 1620 ELSE 540))
            * profile_data.height_cm * profile_data.height_cm,
        100 * profile_data.height_cm * profile_data.height_cm)

C7_Clamped ==
    IF RLt(C7_Raw, Int2Rat(5)) THEN Int2Rat(5)
    ELSE IF RLt(Int2Rat(50), C7_Raw) THEN Int2Rat(50)
    ELSE C7_Raw

\* C7: Katch-McArdle on a valid profile without body_fat_percentage uses the
\* body fat 1.20 bmi + 0.23 age - 16.2 (male) or - 5.4 (female) clamped to
\* [5, 50]: that value is reported as used and the bmr is computed from it.
C7_EstimatedBodyFat ==
    (/\ Requested("FrameworkService", "katch_mcardle")
     /\ ValidProfile(profile_data)
     /\ profile_data.body_fat_percentage = None) =>
        /\ result.ok
        /\ result.components.body_fat_used = C7_Clamped
        /\ RLe(Int2Rat(5), result.components.body_fat_used)
        /\ RLe(result.components.body_fat_used, Int2Rat(50))
        /\ WithinRounding(result.bmr,
               KatchValue(profile_data.weight_kg, result.components.body_fat_used))

\* A valid profile without body fat whose raw estimate is below 5.
C7_Witness ==
    /\ Requested("FrameworkService", "katch_mcardle")
    /\ ValidProfile(profile_data)
    /\ profile_data.body_fat_percentage = None
    /\ RLt(C7_Raw, Int2Rat(5))
    /\ result.ok
    /\ result.components.body_fat_used = Int2Rat(5)

\* ---- C8
\* C8: every Katch-McArdle result carries a body_fat_estimated flag, true
\* exactly when the body fat came from the estimator.
C8_BodyFatEstimatedFlag ==
    (Requested("FrameworkService", "katch_mcardle") /\ result.ok) =>
        /\ "body_fat_estimated" \in DOMAIN result.components
        /\ result.components.body_fat_estimated
               = (profile_data.body_fat_percentage = None)

\* ---- C9
\* The weights a result reports and the bmr of the formula each belongs to.
\* FrameworkService reports weights_used, with the key katch_mcardle when
\* Katch-McArdle was blended in; the advanced framework reports
\* ensemble_weights beside the two constituent results.
C9_Constituents ==
    IF engine = "FrameworkService"
    THEN LET w == result.components.weights_used
             two == << [weight |-> w.mifflin, bmr |-> result.components.mifflin_bmr],
                       [weight |-> w.harris, bmr |-> result.components.harris_bmr] >>
         IN  IF "katch_mcardle" \in DOMAIN w
             THEN Append(two, [weight |-> w.katch_mcardle,
                               bmr |-> katch_mcardle(profile_data).bmr])
             ELSE two
    ELSE LET c == result.components
         IN  << [weight |-> c.ensemble_weights.mifflin, bmr |-> c.mifflin_result.bmr],
                [weight |-> c.ensemble_weights.harris, bmr |-> c.harris_result.bmr] >>

RECURSIVE RSum(_)
RSum(xs) == IF xs = << >> THEN Int2Rat(0) ELSE RAdd(Head(xs), RSum(Tail(xs)))

\* C9: on every valid profile the ensemble bmr is, to one decimal, the sum of
\* the constituent formulas' bmr values times the reported weights; the
\* weights are non-negative and sum to 1, so the bmr lies between the smallest
\* and the largest constituent bmr, within rounding.
C9_EnsembleIsWeightedSum ==
    (/\ \/ Requested("FrameworkService", "adaptive_ensemble")
        \/ Requested("AdvancedTransformationFramework", "adaptive_ensemble")
     /\ ValidInputs) =>
        /\ result.ok
        /\ LET cs == C9_Constituents
               I  == 1 .. Len(cs)
           IN  /\ \A i \in I : RLe(Int2Rat(0), cs[i].weight)
               /\ RSum([i \in I |-> cs[i].weight]) = Int2Rat(1)
               /\ WithinRounding(result.bmr,
                      RSum([i \in I |-> RMul(cs[i].weight, cs[i].bmr)]))
               /\ \E i \in I : RLe(RSub(cs[i].bmr, Rat(1, 20)), result.bmr)
               /\ \E i \in I : RLe(result.bmr, RAdd(cs[i].bmr, Rat(1, 20)))
               /\ engine = "FrameworkService" =>
                      /\ cs[1].bmr = mifflin_st_jeor(profile_data).bmr
                      /\ cs[2].bmr = harris_benedict(profile_data).bmr

\* A valid profile over 60 with body fat supplied: three constituents.
C9_Witness ==
    /\ Requested("FrameworkService", "adaptive_ensemble")
    /\ ValidProfile(profile_data)
    /\ profile_data.age > 60
    /\ result.ok
    /\ Len(C9_Constituents) = 3

\* ---- C10
\* The confidences of the formulas an ensemble result combined.
C10_Confidences ==
    IF engine = "FrameworkService"
    THEN LET two == << mifflin_st_jeor(profile_data).confidence,
                       harris_benedict(profile_data).confidence >>
         IN  IF "katch_mcardle" \in DOMAIN result.components.weights_used
             THEN Append(two, katch_mcardle(profile_data).confidence)
             ELSE two
    ELSE << result.components.mifflin_result.confidence,
            result.components.harris_result.confidence >>

\* C10: on every valid profile the ensemble confidence is
\* min(0.99, mean of the constituent confidences + 0.05).
C10_EnsembleConfidenceIsMean ==
    (/\ \/ Requested("FrameworkService", "adaptive_ensemble")
        \/ Requested("AdvancedTransformationFramework", "adaptive_ensemble")
     /\ ValidInputs) =>
        /\ result.ok
        /\ result.confidence =
               RMin(Rat(99, 100),
                    RAdd(RDiv(RSum(C10_Confidences), Int2Rat(Len(C10_Confidences))),
                         Rat(5, 100)))

\* ---- C11
\* C11: on every valid profile the adaptive-ensemble confidence is at least 0,
\* at most 0.99, and at least the smallest confidence of the formulas the
\* ensemble combined.
C11_EnsembleConfidenceBounds ==
    (/\ \/ Requested("FrameworkService", "adaptive_ensemble")
        \/ Requested("AdvancedTransformationFramework", "adaptive_ensemble")
     /\ ValidInputs) =>
        /\ result.ok
        /\ RLe(Int2Rat(0), result.confidence)
        /\ RLe(result.confidence, Rat(99, 100))
        /\ \E i \in 1 .. Len(C10_Confidences) :
               RLe(C10_Confidences[i], result.confidence)

\* A valid profile with both adjustments (age above 80, bmi above 35) and
\* body fat supplied: three constituents, an ensemble confidence below the cap.
C11_Witness ==
    /\ Requested("FrameworkService", "adaptive_ensemble")
    /\ ValidProfile(profile_data)
    /\ profile_data.age > 80
    /\ RLt(Int2Rat(35), Bmi(profile_data.weight_kg, profile_data.height_cm))
    /\ result.ok
    /\ Len(C10_Confidences) = 3
    /\ RLt(result.confidence, Rat(99, 100))

\* ---- C12
\* C12: on every valid profile the confidence of every result, of a formula or
\* of the ensemble, lies in [0, 0.99] and has at most 3 decimal places.
C12_ConfidenceRangeAndDecimals ==
    (/\ ValidInputs
     /\ result.ok
     /\ "confidence" \in DOMAIN result) =>
        /\ RLe(Int2Rat(0), result.confidence)
        /\ RLe(result.confidence, Rat(99, 100))
        /\ MultipleOf(result.confidence, 1000)

\* ---- C13
\* The formula calls of the three engines (the ensemble left out).
FormulaServed ==
    \/ /\ engine = "FrameworkService"
       /\ request_method \in {"mifflin_st_jeor", "harris_benedict", "katch_mcardle"}
    \/ /\ engine = "AdvancedTransformationFramework"
       /\ request_method \in {"mifflin_st_jeor", "harris_benedict"}
    \/ engine = "ExampleBMRStrategy"

\* A valid profile that triggers no adjustment: age in [18, 65], bmi in
\* [18.5, 30], no body fat supplied.
NoAdjustment ==
    /\ ValidInputs
    /\ profile_data.age >= 18 /\ profile_data.age <= 65
    /\ RLe(Rat(185, 10), Bmi(profile_data.weight_kg, profile_data.height_cm))
    /\ RLe(Bmi(profile_data.weight_kg, profile_data.height_cm), Int2Rat(30))
    /\ profile_data.body_fat_percentage = None

\* C13: on a valid profile that triggers no adjustment the confidence is the
\* formula's base constant: 0.95 Mifflin-St Jeor, 0.90 Harris-Benedict, 0.93
\* Katch-McArdle.
C13_BaseConfidence ==
    (/\ FormulaServed
     /\ NoAdjustment
     /\ result.ok
     /\ "confidence" \in DOMAIN result) =>
        result.confidence =
            CASE request_method = "mifflin_st_jeor" -> Rat(95, 100)
              [] request_method = "harris_benedict" -> Rat(90, 100)
              [] request_method = "katch_mcardle"   -> Rat(93, 100)

\* ---- C14
\* x and y differ by at most 0.001, the last decimal place of a confidence.
WithinMilli(x, y) == RLe(RAbs(RSub(x, y)), Rat(1, 1000))

\* The confidence every scorer of the repository gives a profile: the
\* BMRCalculator scorer for each formula, the AdvancedBMRCalculator scorer as
\* its two formulas use it, and the ExampleBMRStrategy scorer.
Scorers(p) ==
    << BMRCalculator_calculate_confidence(p, "mifflin_st_jeor"),
       BMRCalculator_calculate_confidence(p, "harris_benedict"),
       BMRCalculator_calculate_confidence(p, "katch_mcardle"),
       calculate_mifflin_st_jeor(p.weight_kg, p.height_cm, p.age, p.gender).confidence,
       calculate_harris_benedict(p.weight_kg, p.height_cm, p.age, p.gender).confidence,
       ExampleBMRStrategy_get_confidence(p) >>

\* The profile of the request at another age.
AtAge(a) ==
    UserProfile(profile_data.weight_kg, profile_data.height_cm, a,
                profile_data.gender, profile_data.body_fat_percentage)

\* Every scorer multiplies by 0.90 exactly when age < 18 or age > T.
AgeAdjustment(T) ==
    \A a \in {x \in AgeValues : x > 0} :
        \A k \in 1 .. Len(Scorers(AtAge(a))) :
            WithinMilli(Scorers(AtAge(a))[k],
                        IF a < 18 \/ a > T
                        THEN RMul(Scorers(AtAge(30))[k], Rat(90, 100))
                        ELSE Scorers(AtAge(30))[k])

\* C14: there is one upper age threshold, 65 or 80, such that every formula
\* and every implementation of the scorer multiplies the confidence by 0.90
\* once when age < 18 or age is above it, and applies no age factor from 18 up
\* to it.
C14_SingleAgeAdjustment ==
    (/\ FormulaServed
     /\ profile_data.weight_kg > 0
     /\ profile_data.height_cm > 0) =>
        \E T \in {65, 80} : AgeAdjustment(T)

\* ---- C15
\* The confidence the serving formula gives the request's age, gender and
\* body fat at another weight and height.
ConfidenceAt(w, h) ==
    CASE engine = "FrameworkService" ->
             calculator_methods(request_method,
                 UserProfile(w, h, profile_data.age, profile_data.gender,
                             profile_data.body_fat_percentage)).confidence
      [] engine = "AdvancedTransformationFramework" ->
             Advanced_dispatch(w, h, profile_data.age, profile_data.gender,
                               request_method).confidence
      [] engine = "ExampleBMRStrategy" ->
             ExampleBMRStrategy_get_confidence(
                 UserProfile(w, h, profile_data.age, profile_data.gender,
                             profile_data.body_fat_percentage))

\* C15: on every valid profile the confidence carries the factor 0.92 when
\* bmi < 18.5 or bmi > 30 (bmi between 30 and 35 included) and no bmi factor
\* when bmi is within [18.5, 30]: it is the confidence of the same request at
\* 75 kg and 180 cm (bmi 23.1) times that factor.
C15_BmiAdjustment ==
    (/\ FormulaServed
     /\ ValidInputs
     /\ result.ok
     /\ "confidence" \in DOMAIN result) =>
        LET bmi == Bmi(profile_data.weight_kg, profile_data.height_cm)
        IN  WithinMilli(result.confidence,
                        IF RLt(bmi, Rat(185, 10)) \/ RLt(Int2Rat(30), bmi)
                        THEN RMul(ConfidenceAt(75, 180), Rat(92, 100))
                        ELSE ConfidenceAt(75, 180))

\* ---- C16
\* C16: in AdvancedBMRCalculator, which has the stricter band, a valid profile
\* with bmi < 16 or bmi > 35 gets the 0.80 factor on top of the first bmi
\* factor: its confidence is 0.80 times, and so strictly below, that of the
\* same request at a bmi just outside [18.5, 30] (45 kg at 160 cm, bmi 17.6).
C16_StricterBandStacks ==
    (/\ engine = "AdvancedTransformationFramework"
     /\ request_method \in {"mifflin_st_jeor", "harris_benedict"}
     /\ ValidInputs
     /\ \/ RLt(Bmi(profile_data.weight_kg, profile_data.height_cm), Int2Rat(16))
        \/ RLt(Int2Rat(35), Bmi(profile_data.weight_kg, profile_data.height_cm))) =>
        /\ result.ok
        /\ RLt(result.confidence, ConfidenceAt(45, 160))
        /\ WithinMilli(result.confidence, RMul(ConfidenceAt(45, 160), Rat(80, 100)))

\* ---- C17
\* The BMRCalculator scorer on the request's profile with body fat present
\* (bonus) or absent (no bonus).
KatchConfidence(bonus) ==
    BMRCalculator_calculate_confidence(
        UserProfile(profile_data.weight_kg, profile_data.height_cm, profile_data.age,
                    profile_data.gender, IF bonus THEN Some(Int2Rat(15)) ELSE None),
        "katch_mcardle")

\* C17: on every valid profile the Katch-McArdle confidence carries the 1.05
\* bonus exactly when the caller supplied body_fat_percentage; with the
\* estimator fallback there is no bonus, so the confidence is at most that of
\* the same profile with body fat supplied.
C17_BonusOnlyForSuppliedBodyFat ==
    (/\ Requested("FrameworkService", "katch_mcardle")
     /\ ValidProfile(profile_data)) =>
        /\ result.ok
        /\ result.confidence =
               KatchConfidence(profile_data.body_fat_percentage # None)
        /\ RLe(result.confidence, KatchConfidence(TRUE))

\* ---- C18
\* The static (mifflin, harris) weights in hundredths, by bmi band and age.
StaticWeights100 ==
    LET bmi == Bmi(profile_data.weight_kg, profile_data.height_cm)
        w0  == IF RLe(Rat(185, 10), bmi) /\ RLe(bmi, Int2Rat(25)) THEN <<70, 30>>
               ELSE IF RLt(Int2Rat(30), bmi) THEN <<55, 45>>
               ELSE <<60, 40>>
    IN  IF profile_data.age > 60 THEN <<w0[1] - 5, w0[2] + 5>> ELSE w0

\* Katch-McArdle took part in the ensemble result.
Blended == "katch_mcardle" \in DOMAIN result.components.weights_used

\* C18: under static weighting, on every valid profile, the (mifflin, harris)
\* weights are (0.7, 0.3) when 18.5 <= bmi <= 25, (0.55, 0.45) when bmi > 30
\* and (0.6, 0.4) otherwise, with 0.05 moved from mifflin to harris when
\* age > 60, and the two sum to 1.  A blended result reports them times 0.7.
C18_StaticWeights ==
    (/\ Requested("FrameworkService", "adaptive_ensemble")
     /\ ValidProfile(profile_data)) =>
        /\ result.ok
        /\ LET w     == result.components.weights_used
               share == IF Blended THEN Rat(7, 10) ELSE Int2Rat(1)
           IN  /\ w.mifflin = RMul(Rat(StaticWeights100[1], 100), share)
               /\ w.harris = RMul(Rat(StaticWeights100[2], 100), share)
               /\ RAdd(w.mifflin, w.harris) = share
               /\ StaticWeights100[1] + StaticWeights100[2] = 100

\* A valid profile over 60 with bmi above 30 and no body fat: weights 0.5, 0.5.
C18_Witness ==
    /\ Requested("FrameworkService", "adaptive_ensemble")
    /\ ValidProfile(profile_data)
    /\ profile_data.age > 60
    /\ RLt(Int2Rat(30), Bmi(profile_data.weight_kg, profile_data.height_cm))
    /\ result.ok
    /\ ~Blended
    /\ result.components.weights_used = [mifflin |-> Rat(1, 2), harris |-> Rat(1, 2)]

\* ---- C19
\* The mifflin/harris weighted bmr of a static-weighting result.
C19_TwoFormulaBmr ==
    RAdd(RMul(result.components.mifflin_bmr, Rat(StaticWeights100[1], 100)),
         RMul(result.components.harris_bmr, Rat(StaticWeights100[2], 100)))

\* C19: under static weighting, on every valid profile, Katch-McArdle is
\* blended in exactly when the profile has body fat (a supplied value, 0
\* included): the bmr is then 0.7 times the mifflin/harris weighted bmr plus
\* 0.3 times the Katch-McArdle bmr of the supplied body fat, the reported
\* weights are 0.3 for Katch-McArdle and the other two times 0.7; without body
\* fat the ensemble is the mifflin/harris weighted bmr alone.
C19_KatchBlendedWhenBodyFat ==
    (/\ Requested("FrameworkService", "adaptive_ensemble")
     /\ ValidProfile(profile_data)) =>
        /\ result.ok
        /\ Blended <=> profile_data.body_fat_percentage # None
        /\ Blended =>
               /\ result.components.weights_used.katch_mcardle = Rat(3, 10)
               /\ result.components.weights_used.mifflin = Rat(7 * StaticWeights100[1], 1000)
               /\ result.components.weights_used.harris = Rat(7 * StaticWeights100[2], 1000)
               /\ WithinRounding(result.bmr,
                      RAdd(RMul(C19_TwoFormulaBmr, Rat(7, 10)),
                           RMul(Round(KatchValue(profile_data.weight_kg,
                                                 profile_data.body_fat_percentage[1]), 10),
                                Rat(3, 10))))
        /\ ~Blended =>
               /\ DOMAIN result.components.weights_used = {"mifflin", "harris"}
               /\ WithinRounding(result.bmr, C19_TwoFormulaBmr)

\* ---- C20
\* C20: under confidence weighting, on every valid profile, each formula's
\* reported weight is its own confidence divided by the sum of the two
\* confidences, the weights sum to 1, and the 0.5/0.5 fallback stands only
\* when the confidences sum to 0.
C20_ConfidenceWeights ==
    (/\ Requested("AdvancedTransformationFramework", "adaptive_ensemble")
     /\ ValidInputs) =>
        /\ result.ok
        /\ LET c     == result.components
               total == RAdd(c.mifflin_result.confidence, c.harris_result.confidence)
               w     == c.ensemble_weights
           IN  /\ RAdd(w.mifflin, w.harris) = Int2Rat(1)
               /\ total # Int2Rat(0) =>
                      /\ w.mifflin = RDiv(c.mifflin_result.confidence, total)
                      /\ w.harris = RDiv(c.harris_result.confidence, total)
               /\ total = Int2Rat(0) =>
                      w = [mifflin |-> Rat(1, 2), harris |-> Rat(1, 2)]

\* A valid request whose two formulas differ in confidence: unequal weights.
C20_Witness ==
    /\ Requested("AdvancedTransformationFramework", "adaptive_ensemble")
    /\ ValidInputs
    /\ profile_data.age > 65
    /\ result.ok
    /\ RLt(result.components.ensemble_weights.harris,
           result.components.ensemble_weights.mifflin)

\* ---- C21
\* r is the full result of one formula: bmr, method, confidence, components.
FullResult(r) ==
    {"bmr", "method", "confidence", "components"} \subseteq DOMAIN r

\* C21: on every valid profile the components of an adaptive-ensemble result
\* hold, for each formula that contributed (Katch-McArdle included when it was
\* blended in), that formula's own full result.
C21_ComponentsKeepFullResults ==
    (/\ \/ Requested("FrameworkService", "adaptive_ensemble")
        \/ Requested("AdvancedTransformationFramework", "adaptive_ensemble")
     /\ ValidInputs) =>
        /\ result.ok
        /\ LET c == result.components
           IN  /\ "mifflin_result" \in DOMAIN c /\ FullResult(c.mifflin_result)
               /\ "harris_result" \in DOMAIN c /\ FullResult(c.harris_result)
               /\ (engine = "FrameworkService" /\ Blended) =>
                      ("katch_result" \in DOMAIN c /\ FullResult(c.katch_result))

\* ---- C22
\* C22: after a call, for any method, every field of the profile handed to
\* the formula (body_fat_percentage in particular) has the value the caller
\* gave it.
C22_ProfileNotModified ==
    engine = "FrameworkService" =>
        profile = UserProfile(profile_data.weight_kg, profile_data.height_cm,
                              profile_data.age, profile_data.gender,
                              profile_data.body_fat_percentage)

\* ---- C26
\* The sum of the named sub-terms of a formula result's components.
C26_SumOfTerms ==
    LET c == result.components
    IN  IF request_method = "harris_benedict"
        THEN RSum(<<c.base_constant, c.weight_component, c.height_component,
                    c.age_component>>)
        ELSE RSum(<<c.base, c.gender_adjustment>>)

\* C26: on every valid profile a Mifflin-St Jeor result carries components
\* base and gender_adjustment, a Harris-Benedict result carries base_constant,
\* weight_component, height_component and age_component, and the sub-terms
\* sum to the reported bmr within the rounding of the terms (0.05 each).
C26_ComponentsSumToBmr ==
    (/\ \/ engine \in {"FrameworkService", "AdvancedTransformationFramework"}
           /\ request_method \in {"mifflin_st_jeor", "harris_benedict"}
        \/ engine = "ExampleBMRStrategy"
     /\ ValidInputs) =>
        /\ result.ok
        /\ "components" \in DOMAIN result
        /\ IF request_method = "harris_benedict"
           THEN {"base_constant", "weight_component", "height_component",
                 "age_component"} \subseteq DOMAIN result.components
           ELSE {"base", "gender_adjustment"} \subseteq DOMAIN result.components
        /\ RLe(RAbs(RSub(C26_SumOfTerms, result.bmr)), Rat(4, 20))

\* ---- C27
\* C27: every supplied body_fat_percentage in [0, 100], 0 included, is used as
\* supplied: Katch-McArdle reports it as body_fat_used and returns
\* 370 + 21.6 * weight_kg * (1 - bf/100) to one decimal (370 + 21.6 * weight_kg
\* for 0), and the ensemble blends Katch-McArdle in.
C27_ZeroBodyFatIsSupplied ==
    (/\ engine = "FrameworkService"
     /\ ValidProfile(profile_data)
     /\ profile_data.body_fat_percentage # None) =>
        /\ request_method = "katch_mcardle" =>
               /\ result.ok
               /\ result.components.body_fat_used = profile_data.body_fat_percentage[1]
               /\ WithinRounding(result.bmr,
                      KatchValue(profile_data.weight_kg,
                                 profile_data.body_fat_percentage[1]))
               /\ profile.body_fat_percentage = profile_data.body_fat_percentage
        /\ request_method = "adaptive_ensemble" => (result.ok /\ Blended)

\* ---- C23
\* C23: a call returns what it would return as the first call on the profile:
\* after any earlier calls on the same profile object, the result for a
\* method is the result the method gives the caller's original values.
C23_ResultIndependentOfHistory ==
    engine = "BMRCalculator" =>
        result = calculator_methods(request_method, profile_data)

\* ---- C28
\* The events of the i-th finished call: event_history[2i - 1], event_history[2i].
C28_Outcomes == {"calculation_completed", "error_occurred"}

\* C28: every call of AdvancedTransformationFramework.calculate_bmr publishes
\* one calculation_started and then one of calculation_completed (it returned)
\* or error_occurred (it raised); after any sequence of calls
\* calculations_started = calculations_completed + errors_total.
C28_OneStartOneOutcome ==
    engine \in {"none", "AdvancedTransformationFramework"} =>
        /\ Len(event_history) = 2 * calls
        /\ \A i \in 1 .. calls :
               /\ event_history[2 * i - 1].type = "calculation_started"
               /\ event_history[2 * i].type \in C28_Outcomes
        /\ calls > 0 =>
               event_history[2 * calls].type =
                   (IF result.ok THEN "calculation_completed" ELSE "error_occurred")
        /\ counters.calculations_started = calls
        /\ counters.calculations_completed =
               Cardinality({i \in 1 .. calls :
                            event_history[2 * i].type = "calculation_completed"})
        /\ counters.errors_total =
               Cardinality({i \in 1 .. calls :
                            event_history[2 * i].type = "error_occurred"})
        /\ counters.calculations_started =
               counters.calculations_completed + counters.errors_total

\* Three calls served, some returned and some raised.
C28_Witness ==
    /\ engine = "AdvancedTransformationFramework"
    /\ calls = MaxAdvancedCalls
    /\ counters.calculations_completed > 0
    /\ counters.errors_total > 0
    /\ ~result.ok

\* ---- C24
\* What thread t is returned when it calls alone.
C24_Alone(t) == calculator_methods(threads[t].method, profile_data)

C24_Finished(op) == {t \in Threads : threads[t].pc = "done" /\ threads[t].op = op}

\* Each finished thread was returned what it is returned alone.
C24_ResultsAsAlone ==
    \A t \in C24_Finished("FrameworkService") \cup C24_Finished("BMRCalculator") :
        threads[t].result = C24_Alone(t)

\* Once all threads have finished, every counter holds one update per call.
C24_NoLostUpdate ==
    (\A t \in Threads : threads[t].pc = "done") =>
        /\ calculations_performed =
               Cardinality({t \in C24_Finished("FrameworkService") : threads[t].result.ok})
        /\ counters.calculations_started = Cardinality(C24_Finished("MetricsCollector"))

\* C24: concurrent calculations need no synchronization: under every
\* interleaving each thread is returned what it would be returned alone,
\* whether the threads share the service or one profile object, and no
\* counter update is lost.
C24_ConcurrentCallsIndependent == C24_ResultsAsAlone /\ C24_NoLostUpdate

\* ---- C25
\* The errors the transports answer: a missing or non-numeric field, a method
\* the engine does not offer, a division by zero, an unknown action.
C25_IsError ==
    \/ command.shape # "object"
    \/ command.action \notin {"calculate_bmr", "health_check", "get_metrics"}
    \/ /\ command.action = "calculate_bmr"
       /\ \/ ConvertFields(command.fields) # ""
          \/ profile_data.height_cm = 0
          \/ command.method \notin
                 (IF command.handler = "process_command" THEN KnownMethods
                  ELSE AdvancedMethods) \cup {"absent"}

\* C25: process_command and handle_request answer every error with
\* success = false and an error message, and every successful calculation
\* with success = true.
C25_ErrorsAnswered ==
    command.handler # "none" =>
        /\ C25_IsError => (~response.success /\ response.error # "")
        /\ (command.action = "calculate_bmr" /\ ~C25_IsError) => response.success

\* ---- C29
\* The event types a step appended to the history.
C29_Published ==
    [i \in 1 .. (Len(event_history') - Len(event_history)) |->
        event_history'[Len(event_history) + i].type]

\* A call of TransformationFramework.calculate.
C29_Call == engine' = "TransformationFramework" /\ calls' = calls + 1

C29_Step ==
    C29_Call =>
        /\ SubSeq(event_history', 1, Len(event_history)) = event_history
        /\ \/ /\ result'.ok
              /\ C29_Published = <<"calculation_started", "calculation_completed">>
           \/ /\ ~result'.ok
              /\ C29_Published =
                     <<"calculation_started", "calculation_failed", "error_occurred">>

\* C29: every call of TransformationFramework.calculate, cache hits
\* included, publishes calculation_started first and then either
\* calculation_completed or the pair calculation_failed, error_occurred, and
\* stats.calculations_performed + stats.errors_encountered is the number of
\* calls made.
C29_EventsAndStats ==
    /\ [](engine \in {"none", "TransformationFramework"} =>
             stats.calculations_performed + stats.errors_encountered = calls)
    /\ [][C29_Step]_vars

\* A call was served from the cache, another one raised.
C29_Witness ==
    /\ engine = "TransformationFramework"
    /\ stats.cache_hits > 0
    /\ stats.errors_encountered > 0
    /\ stats.calculations_performed > stats.cache_hits

\* ---- C30
\* A call of calculate that reaches the validation pipeline (no cache hit, a
\* strategy registered) with a validator that returns False, returns
\* is_valid false, or raises.
C30_ValidationFails ==
    /\ engine' = "TransformationFramework"
    /\ calls' = calls + 1
    /\ strategy_registered
    /\ stats'.cache_hits = stats.cache_hits
    /\ \E i \in 1 .. Len(validators) : validators[i].outcome # "True"

\* The call raises, strategy.calculate is not invoked, and every registered
\* validator was run, in ascending priority order.
C30_RaisesAfterFullPipeline ==
    /\ result' = Raise("ValueError: Validation failed")
    /\ strategy_calls' = strategy_calls
    /\ validator_calls' = [i \in 1 .. Len(validators) |-> validators[i].name]
    /\ \A i, j \in 1 .. Len(validators) :
           i < j => validators[i].priority <= validators[j].priority

\* C30: when the validation pipeline reports invalid, calculate raises,
\* strategy.calculate is never invoked and no cache entry is added or
\* changed (the lookup may have evicted the expired entry of the call's own
\* key); the pipeline runs every registered validator in ascending priority
\* order without stopping at the first failure.
C30_InvalidInputRejected ==
    [][C30_ValidationFails =>
          /\ C30_RaisesAfterFullPipeline
          /\ cache' \subseteq cache
          /\ \A e \in cache \ cache' :
                 e.expired /\ e.key = CacheKey(request'.strategy_name, profile_data')]_vars

\* C30 as stated: the cache contents are unchanged.
C30_CacheUnchanged ==
    [][C30_ValidationFails => (C30_RaisesAfterFullPipeline /\ cache' = cache)]_vars

\* A call rejected after all four validators ran, past the first failure,
\* with an entry in the cache.
C30_Witness ==
    /\ engine = "TransformationFramework"
    /\ result = Raise("ValueError: Validation failed")
    /\ Len(validator_calls) = Cardinality(Validators)
    /\ strategy_calls > 0
    /\ cache # {}

\* ---- C31
\* A call of calculate with the cache switched off, by the configuration or
\* by the caller.
C31_CacheOff ==
    /\ engine' = "TransformationFramework"
    /\ calls' = calls + 1
    /\ (~cache_enabled \/ ~request'.use_cache)

\* C31: when framework.cache_enabled is false or use_cache is false,
\* calculate neither reads nor writes the cache: the cache contents after
\* the call equal the cache contents before it.
C31_CacheOffLeavesCache == [][C31_CacheOff => cache' = cache]_vars

\* ---- C32
\* A call of calculate that returns, with a strategy_name that is registered
\* when the call is made.
C32_NamedCall ==
    /\ engine' = "TransformationFramework"
    /\ calls' = calls + 1
    /\ result'.ok
    /\ \E i \in 1 .. Len(strategies) : strategies[i] = request'.strategy_name

\* C32: a call of calculate with an explicit, registered strategy_name is
\* computed by that strategy (strategy_used equals strategy_name), and what
\* the call caches under the name was computed by the strategy named.
C32_NamedStrategyUsed ==
    [][C32_NamedCall =>
          /\ result'.strategy_used = request'.strategy_name
          /\ \A e \in cache' \ cache :
                 e.value.strategy_used = e.key.strategy_name]_vars

\* ---- C33
\* A CacheManager.get call made by the caller.
C33_Get == gets' = gets + 1 /\ got'.caller = "get"

C33_Counted(k) ==
    \/ /\ got'.hit
       /\ hit_counts' = [hit_counts EXCEPT ![k] = @ + 1]
       /\ miss_counts' = miss_counts
    \/ /\ ~got'.hit
       /\ miss_counts' = [miss_counts EXCEPT ![k] = @ + 1]
       /\ hit_counts' = hit_counts

C33_Step ==
    C33_Get =>
        LET k == got'.key
        IN  /\ IF CacheEntries(cache, k) # {} /\ timestamps[k] < default_ttl
               THEN /\ got'.hit
                    /\ got'.value = last_set[k].value
                    /\ cache' = cache
               ELSE /\ ~got'.hit
                    /\ got'.value = "none"
                    /\ cache' = cache \ CacheEntries(cache, k)
            /\ C33_Counted(k)

RECURSIVE C33_Total(_, _)
C33_Total(counts, keys) ==
    IF keys = {} THEN 0
    ELSE LET k == CHOOSE x \in keys : TRUE
         IN  counts[k] + C33_Total(counts, keys \ {k})

\* C33: a get returns the most recently set value as a hit while less than
\* default_ttl seconds have passed since the set, and otherwise returns
\* (None, false) and removes the expired entry; every get increments exactly
\* one of the hit and miss counts, so hits + misses is the number of gets.
C33_GetWithinTtl ==
    /\ [](C33_Total(hit_counts, CacheKeys) + C33_Total(miss_counts, CacheKeys) = gets)
    /\ [][C33_Step]_vars

\* A hit was served, then a get found the entry expired and removed it.
C33_Witness ==
    /\ gets = MaxGets
    /\ ~got.hit
    /\ got.key \in CacheKeys
    /\ last_set[got.key].value # "none"
    /\ CacheEntries(cache, got.key) = {}
    /\ hit_counts[got.key] > 0
    /\ ticks >= default_ttl

\* ---- C34
\* C34: a value stored with ttl = t is served as a hit only while fewer than
\* t seconds have elapsed since it was stored, also when t is smaller than
\* default_ttl.
C34_OwnTtlHonoured ==
    [][gets' = gets + 1 =>
          (got'.hit => timestamps[got'.key] < last_set[got'.key].ttl)]_vars

\* ---- C35
\* The subscribers of a list are in ascending priority order.
C35_Ascending(subs) ==
    \A i, j \in 1 .. Len(subs) : i < j => subs[i].priority <= subs[j].priority

\* The names of the subscribers of a list that satisfy keep, in list order.
RECURSIVE C35_Names(_, _)
C35_Names(subs, keep_raising) ==
    IF subs = << >> THEN << >>
    ELSE (IF Head(subs).raises /\ ~keep_raising THEN << >> ELSE <<Head(subs).name>>)
             \o C35_Names(Tail(subs), keep_raising)

\* Subscription order is kept among equal priorities: a step that subscribes
\* puts the new callback behind every callback of its priority or below and
\* leaves the others in their order.
C35_SubscribeStep ==
    \A type \in EventTypes :
        Len(subscribers'[type]) = Len(subscribers[type]) + 1 =>
            \E k \in 1 .. Len(subscribers'[type]) :
                /\ subscribers[type] =
                       SubSeq(subscribers'[type], 1, k - 1)
                           \o SubSeq(subscribers'[type], k + 1, Len(subscribers'[type]))
                /\ \A i \in 1 .. k - 1 :
                       subscribers'[type][i].priority <= subscribers'[type][k].priority
                /\ \A i \in k + 1 .. Len(subscribers'[type]) :
                       subscribers'[type][i].priority > subscribers'[type][k].priority

C35_PublishStep ==
    published' = published + 1 =>
        LET subs == subscribers[event_history'[Len(event_history')].type]
        IN  /\ C35_Ascending(subs)
            /\ invoked' = C35_Names(subs, TRUE)
            /\ returned' = C35_Names(subs, FALSE)

\* C35: publish invokes the subscribers of the event type in ascending
\* priority order, in subscription order among equal priorities; a subscriber
\* that raises stops neither the later subscribers nor publish, and the
\* returned list holds the results of those that did not raise, in order.
C35_SubscribersInPriorityOrder == [][C35_SubscribeStep /\ C35_PublishStep]_vars

\* A publish that invoked three subscribers, the one that raises before the
\* last one of its priority.
C35_Witness ==
    /\ published > 0
    /\ invoked = <<"metrics", "alert", "audit">>
    /\ returned = <<"metrics", "audit">>

\* ---- C36
C36_Min(a, b) == IF a < b THEN a ELSE b

\* C36: after any sequence of publish calls the history holds at most 1000
\* events, and exactly the most recent min(n, 1000) published events in
\* publication order, whether or not a subscriber exists or fails.
C36_HistoryKeepsMostRecent ==
    /\ Len(event_history) = C36_Min(published, max_history)
    /\ \A i \in 1 .. Len(event_history) :
           event_history[i].method = published - Len(event_history) + i

\* More than 1000 events published on a bus whose subscriber raises: the
\* oldest events are gone.
C36_Witness ==
    /\ published > max_history + 1
    /\ Len(event_history) = max_history
    /\ event_history[1].method = published - max_history + 1
    /\ Len(invoked) = 1
    /\ returned = << >>

\* ---- C37
\* Every loaded plugin has all its declared dependencies loaded.
C37_DependenciesLoaded ==
    \A name \in plugins : PluginDependencies[name] \subseteq plugins

\* load_plugin refuses a plugin with a missing dependency: it returns false,
\* leaves plugins unchanged and publishes no plugin_loaded event.
C37_LoadRefused ==
    (/\ plugin_calls' = plugin_calls + 1
     /\ plugin_returned'.call = "load_plugin"
     /\ ~(PluginDependencies[plugin_returned'.name] \subseteq plugins))
        => /\ plugin_returned'.value = FALSE
           /\ plugins' = plugins
           /\ event_history' = event_history

\* C37: every loaded plugin has its declared dependencies loaded, load_plugin
\* refuses a plugin whose dependency is missing, and unloading never leaves a
\* loaded plugin whose dependency is gone.
C37_DependenciesRespected == []C37_DependenciesLoaded /\ [][C37_LoadRefused]_vars

\* ---- C38
\* One command changes calculations_performed by one when it is a
\* calculate_bmr command answered with success true, and not at all otherwise.
C38_Step ==
    calls' = calls + 1 =>
        calculations_performed' =
            IF command'.action = "calculate_bmr" /\ response'.success
            THEN calculations_performed + 1
            ELSE calculations_performed

\* A health_check answer reports the number of calculate_bmr commands
\* answered with success true so far.
C38_Reported ==
    (calls' = calls + 1 /\ command'.action = "health_check")
        => health'.calculations_performed = answered

\* C38: calculations_performed grows by one for every calculate_bmr call that
\* returns and not for one that raises; health_check reports the number of
\* calculate_bmr commands answered with success true; load_plugin,
\* unload_plugin and health_check never change it.
C38_CountsSuccessfulCalculations ==
    [](calculations_performed = answered) /\ [][C38_Step /\ C38_Reported]_vars

\* A health check that reports one calculation after a calculate_bmr command
\* answered with success true and a load_plugin command.
C38_Witness ==
    /\ calls = 3
    /\ command.action = "health_check"
    /\ health.calculations_performed = 1
    /\ answered = 1
    /\ "custom_plugin" \in service_plugins

\* ---- C39
\* The step is an assign_variant call.
C39_Assign ==
    /\ experiment_calls' = experiment_calls + 1
    /\ experiment_returned'.call = "assign_variant"

\* A user already assigned for the experiment is returned the same variant.
C39_Sticky ==
    C39_Assign =>
        \A a \in participant_assignments :
            (/\ a.key = AssignmentKey(experiment_returned'.experiment,
                                      experiment_returned'.user)
             /\ experiments[experiment_returned'.experiment] # << >>)
                => /\ experiment_returned'.value = a.variant
                   /\ a \in participant_assignments'

\* The variant returned is one of the variants the experiment declares.
C39_Declared ==
    (C39_Assign /\ experiments[experiment_returned'.experiment] # << >>)
        => \E i \in 1 .. Len(experiments[experiment_returned'.experiment][1].variants) :
               experiment_returned'.value =
                   experiments[experiment_returned'.experiment][1].variants[i]

\* An unknown experiment raises and records no assignment.
C39_UnknownRaises ==
    (C39_Assign /\ experiments[experiment_returned'.experiment] = << >>)
        => /\ experiment_returned'.value = "ValueError"
           /\ participant_assignments' = participant_assignments

\* C39: assign_variant is sticky for an experiment and a user, whatever other
\* users are assigned or results recorded in between; the variant returned is
\* always one of the experiment's declared variants; an unknown experiment
\* raises without recording an assignment.
C39_StickyDeclaredVariant == [][C39_Sticky /\ C39_Declared /\ C39_UnknownRaises]_vars

====
